---- MODULE Spec2Model ----
(***************************************************************************)
(* Call orchestrator of the empathetic health voice agent: the slot        *)
(* engine (lib/orchestrator/slot-engine.ts), the safety detector           *)
(* (lib/orchestrator/safety.ts), the orchestrator and its event channel    *)
(* (lib/orchestrator/index.ts).                                            *)
(*                                                                         *)
(* Conventions.  A JS Map is a function whose DOMAIN is the set of keys    *)
(* present.  A confidence is an integer number of hundredths (0.6 = 60).   *)
(* A text is the sequence of its space-separated words; a rule token is    *)
(* the sequence of its words, and the whole-word regular expression        *)
(* \btoken\b matches a text when the token's words occur in it             *)
(* contiguously.  new Date().toISOString() is the constant Now.            *)
(***************************************************************************)
EXTENDS Integers, Sequences, FiniteSets, TLC

VARIABLES sessions, snapshots, eventListeners, result, requests, routes, streams,
          twinmind, asr

routeVars == <<routes, streams>>

serviceVars == <<twinmind, asr>>

orchestratorVars == <<sessions, snapshots, eventListeners, result, requests, routeVars>>

vars == <<sessions, snapshots, eventListeners, result, requests, routeVars, serviceVars>>

(***************************************************************************)
(* Bounds of the model.                                                    *)
(***************************************************************************)
MaxTurns == 1          \* turns in all the logs of Spec together
MaxLongTurns == 6      \* turns in the log of the call of SpecTurns
MaxRichTurns == 2      \* turns of that log that draw from every input
MaxListeners == 3      \* registrations under all the keys of SpecEvents together
MaxSlotTurns == 2      \* turns in the log of the call of SpecSlots
MaxFanout == 3         \* registrations under all the keys of SpecFanout together
MaxStoreTurns == 2     \* turns in all the logs of SpecStore together
MaxStoreListeners == 1 \* registrations under all the keys of SpecStore together
MaxPosted == 3         \* turns posted to the transcript route in SpecRequests
MaxUnsub == 3          \* registrations under all the keys of SpecUnsub together
MaxRouteTurns == 2     \* turns in all the logs of the transcript route in SpecRoutes
MaxSubmits == 3        \* calls of TwinMindService.submitChunk by its users
MaxConnections == 3    \* connections a StreamingASRAdapter creates

CallIds == {"c1", "c2"}
WildcardId == "*"
ListenerKeys == CallIds \cup {WildcardId}
ListenerIds == {"l1", "lthrow"}
Throwing == {"lthrow"}
\* A listener that unsubscribes itself, from the key it is invoked for, when
\* it is invoked.
Unsubscribing == {"lonce"}
Now == "now"

(***************************************************************************)
(* Sequence helpers.                                                       *)
(***************************************************************************)
RECURSIVE Flatten(_)
Flatten(ss) == IF ss = << >> THEN << >> ELSE Head(ss) \o Flatten(Tail(ss))

Includes(s, x) == \E i \in 1..Len(s) : s[i] = x

IndexOf(s, x) ==
  IF Includes(s, x) THEN CHOOSE i \in 1..Len(s) : s[i] = x /\ \A j \in 1..(i-1) : s[j] # x
  ELSE 0

RemoveAt(s, i) == SubSeq(s, 1, i-1) \o SubSeq(s, i+1, Len(s))

MapSet(m, k, v) == [x \in (DOMAIN m) \cup {k} |-> IF x = k THEN v ELSE m[x]]

MapDelete(m, k) == [x \in (DOMAIN m) \ {k} |-> m[x]]

EmptyMap == [x \in {} |-> 0]

(***************************************************************************)
(* Question catalog (shared/schemas/intake.questions.json).                *)
(***************************************************************************)
Questions ==
  << [id |-> "q1", slot |-> "full_name",       category |-> "personal", required |-> TRUE],
     [id |-> "q2", slot |-> "allergies",       category |-> "medical",  required |-> FALSE],
     [id |-> "q3", slot |-> "chief_complaint", category |-> "visit",    required |-> TRUE] >>

NoQuestion == [id |-> "null", slot |-> "null", category |-> "null", required |-> FALSE]

Slots == {Questions[i].slot : i \in 1..Len(Questions)}

(***************************************************************************)
(* Safety detector.                                                        *)
(***************************************************************************)
ReasonCardiac == "Potential cardiac emergency: chest pain with respiratory distress"
ReasonStroke == "Potential stroke: FAST symptoms detected"
ReasonSuicide == "Suicidal ideation detected"
ReasonAnaphylaxis == "Potential anaphylaxis: severe allergic reaction"
ReasonBleeding == "Severe bleeding reported"
ReasonLoc == "Loss of consciousness reported"
ReasonPain == "Severe pain reported"

rules ==
  << [tokens |-> << << <<"chest","pain">>, <<"shortness","of","breath">> >>,
                    << <<"chest","pain">>, <<"can't","breathe">> >>,
                    << <<"chest","pain">>, <<"difficulty","breathing">> >> >>,
      reason |-> ReasonCardiac, priority |-> "urgent"],
     [tokens |-> << << <<"face","droop">>, <<"slurred","speech">> >>,
                    << <<"facial","droop">>, <<"speech","slurred">> >>,
                    << <<"face","drooping">>, <<"can't","speak">> >>,
                    << <<"arm","weakness">>, <<"face","droop">> >> >>,
      reason |-> ReasonStroke, priority |-> "urgent"],
     [tokens |-> << << <<"want","to","kill","myself">> >>,
                    << <<"suicide">> >>,
                    << <<"suicidal">> >>,
                    << <<"end","my","life">> >>,
                    << <<"don't","want","to","live">> >> >>,
      reason |-> ReasonSuicide, priority |-> "urgent"],
     [tokens |-> << << <<"throat","swelling">>, <<"can't","breathe">> >>,
                    << <<"allergic","reaction">>, <<"throat","closing">> >>,
                    << <<"anaphylaxis">> >>,
                    << <<"epipen">>, <<"can't","breathe">> >> >>,
      reason |-> ReasonAnaphylaxis, priority |-> "urgent"],
     [tokens |-> << << <<"bleeding">>, <<"won't","stop">> >>,
                    << <<"heavy","bleeding">> >>,
                    << <<"blood">>, <<"can't","stop">> >> >>,
      reason |-> ReasonBleeding, priority |-> "urgent"],
     [tokens |-> << << <<"passed","out">> >>,
                    << <<"lost","consciousness">> >>,
                    << <<"fainted">> >>,
                    << <<"blacked","out">> >> >>,
      reason |-> ReasonLoc, priority |-> "high"],
     [tokens |-> << << <<"worst","pain">>, <<"ever">> >>,
                    << <<"10","out","of","10","pain">> >>,
                    << <<"unbearable","pain">> >> >>,
      reason |-> ReasonPain, priority |-> "high"] >>

\* String.prototype.toLowerCase on one word (the upper-case words the
\* model's texts use).
toLowerCase(w) ==
  CASE w = "CHEST" -> "chest"
    [] w = "Pain" -> "pain"
    [] OTHER -> w

\* new RegExp(`\\b${token}\\b`, 'i').test(text)
regexTest(token, text) ==
  \E i \in 1..(Len(text) - Len(token) + 1) :
     \A j \in 1..Len(token) : toLowerCase(text[i + j - 1]) = toLowerCase(token[j])

\* The token-sets of the rule that are entirely present, in declaration order.
checkRule(text, rule) ==
  LET present(ts) == \A k \in 1..Len(ts) : regexTest(ts[k], text)
  IN  SelectSeq(rule.tokens, present)

\* Mutant: the speaker filter is left out.
patientTextAllSpeakers(turns) ==
  LET joined == Flatten([i \in 1..Len(turns) |-> turns[i].text])
  IN  [i \in 1..Len(joined) |-> toLowerCase(joined[i])]

\* turns.filter(patient).map(text).join(' ').toLowerCase()
patientText(turns) ==
  LET isPatient(t) == t.speaker = "patient"
      pt == SelectSeq(turns, isPatient)
      joined == Flatten([i \in 1..Len(pt) |-> pt[i].text])
  IN  [i \in 1..Len(joined) |-> toLowerCase(joined[i])]

\* Mutant: the flags come out in the reverse of the declaration order.
detectRedFlagsReversed(turns) ==
  LET text == patientText(turns)
      matched(rule) == checkRule(text, rule) # << >>
      hit == SelectSeq(rules, matched)
  IN  [i \in 1..Len(hit) |->
         [reason |-> hit[Len(hit) + 1 - i].reason, priority |-> hit[Len(hit) + 1 - i].priority,
          evidence |-> checkRule(text, hit[Len(hit) + 1 - i])]]

detectRedFlags(turns) ==
  LET text == patientText(turns)
      matched(rule) == checkRule(text, rule) # << >>
      hit == SelectSeq(rules, matched)
  IN  [i \in 1..Len(hit) |->
         [reason |-> hit[i].reason, priority |-> hit[i].priority,
          evidence |-> checkRule(text, hit[i])]]

windowSize == 5

\* Mutant: nothing is sliced off.
sliceLastWhole(turns, n) == turns

\* turns.slice(-windowSize)
sliceLast(turns, n) ==
  IF Len(turns) <= n THEN turns ELSE SubSeq(turns, Len(turns) - n + 1, Len(turns))

\* Mutant: the window leaves out the turn just appended.
checkRecentTurnsBeforeAppend(turns) ==
  detectRedFlags(sliceLast(SubSeq(turns, 1, Len(turns) - 1), windowSize))

checkRecentTurns(turns) == detectRedFlags(sliceLast(turns, windowSize))

(***************************************************************************)
(* Slot engine.  A snapshot is the record                                  *)
(*   [call_id, patient, answers, red_flags, completed, timestamp];         *)
(* answers maps the slot keys present to SlotAnswer records; patient maps  *)
(* the summary fields present to their values (an absent patient object    *)
(* and an empty one are both the empty map).  A falsy call_id or timestamp *)
(* is "".                                                                  *)
(***************************************************************************)
Threshold == 60

RequiredIdx == {i \in 1..Len(Questions) : Questions[i].required}

Unfilled(snapshot, q) ==
  q.slot \notin DOMAIN snapshot.answers \/ snapshot.answers[q.slot].status # "filled"

initializeState(callId) ==
  [call_id |-> callId,
   current_question_index |-> 0,
   snapshot |-> [call_id |-> callId, patient |-> EmptyMap, answers |-> EmptyMap,
                 red_flags |-> << >>, completed |-> FALSE, timestamp |-> Now],
   turns |-> << >>]

\* Mutant: the required flag of the question is not looked at.
getNextQuestionIdxAnyQuestion(state) ==
  LET open == {i \in 1..Len(Questions) : Unfilled(state.snapshot, Questions[i])}
  IN  IF open = {} THEN 0 ELSE CHOOSE i \in open : \A j \in open : i <= j

\* Index in the catalog of the next question to ask; 0 stands for null.
getNextQuestionIdx(state) ==
  LET open == {i \in 1..Len(Questions) :
                 Questions[i].required /\ Unfilled(state.snapshot, Questions[i])}
  IN  IF open = {} THEN 0 ELSE CHOOSE i \in open : \A j \in open : i <= j

\* Mutant: the loop keeps the last match instead of returning the first.
getNextQuestionLastOpen(state) ==
  LET open == {i \in 1..Len(Questions) :
                 Questions[i].required /\ Unfilled(state.snapshot, Questions[i])}
  IN  IF open = {} THEN NoQuestion ELSE Questions[CHOOSE i \in open : \A j \in open : i >= j]

getNextQuestion(state) ==
  IF getNextQuestionIdx(state) = 0 THEN NoQuestion ELSE Questions[getNextQuestionIdx(state)]

checkCompletion(state) ==
  \A i \in 1..Len(Questions) :
     Questions[i].required => ~Unfilled(state.snapshot, Questions[i])

\* Mutant: the threshold itself does not fill the slot.
statusOfAbove(confidence) == IF confidence > Threshold THEN "filled" ELSE "unknown"

statusOf(confidence) == IF confidence >= Threshold THEN "filled" ELSE "unknown"

PatientKeys == {"full_name", "dob", "callback_number"}

\* Mutant: an answer of higher confidence is kept.
updateSnapshotKeepBetter(state, slot, value, confidence, evidenceTurnIds) ==
  LET answer == [value |-> value, confidence |-> confidence,
                 status |-> statusOf(confidence),
                 evidence_turn_ids |-> evidenceTurnIds]
      keep == /\ slot \in DOMAIN state.snapshot.answers
              /\ state.snapshot.answers[slot].confidence > confidence
      s1 == [state.snapshot EXCEPT !.answers = IF keep THEN @ ELSE MapSet(@, slot, answer),
                                   !.timestamp = Now]
      s2 == IF slot \in PatientKeys /\ ~keep
            THEN [s1 EXCEPT !.patient = MapSet(@, slot, value)]
            ELSE s1
      st2 == [state EXCEPT !.snapshot = s2]
  IN  [st2 EXCEPT !.snapshot.completed = checkCompletion(st2)]

\* The state after updateSnapshot has mutated state.snapshot in place.
updateSnapshot(state, slot, value, confidence, evidenceTurnIds) ==
  LET answer == [value |-> value, confidence |-> confidence,
                 status |-> statusOf(confidence),
                 evidence_turn_ids |-> evidenceTurnIds]
      s1 == [state.snapshot EXCEPT !.answers = MapSet(@, slot, answer),
                                   !.timestamp = Now]
      s2 == IF slot \in PatientKeys
            THEN [s1 EXCEPT !.patient = MapSet(@, slot, value)]
            ELSE s1
      st2 == [state EXCEPT !.snapshot = s2]
  IN  [st2 EXCEPT !.snapshot.completed = checkCompletion(st2)]

\* Mutant: unshift instead of push.
addTranscriptTurnFirst(state, turn) == [state EXCEPT !.turns = <<turn>> \o @]

addTranscriptTurn(state, turn) == [state EXCEPT !.turns = Append(@, turn)]

\* The filled slots with their values, in the order of the answers' keys.
RECURSIVE SetToSeq(_)
SetToSeq(S) ==
  IF S = {} THEN << >>
  ELSE LET x == CHOOSE y \in S : TRUE IN <<x>> \o SetToSeq(S \ {x})

buildContextSummary(state) ==
  LET keys == SetToSeq(DOMAIN state.snapshot.answers)
      filled(k) == state.snapshot.answers[k].status = "filled"
      fk == SelectSeq(keys, filled)
  IN  [i \in 1..Len(fk) |-> <<fk[i], state.snapshot.answers[fk[i]].value>>]

buildQuestionPrompt(question, state) ==
  [context |-> buildContextSummary(state), verbatim |-> question.id]

(***************************************************************************)
(* validateSnapshot.  Its argument is a raw snapshot [snap, malformed]:    *)
(* snap is the snapshot and malformed the set of <<field, key>> pairs      *)
(* whose JSON value has the wrong type (<<"answers","undefined">>,         *)
(* <<"answers","null">>, <<"red_flags","">>, <<"completed","">>,           *)
(* <<"confidence",slot>>, <<"evidence_turn_ids",slot>>).  An answer        *)
(* without status has status "".  The result says whether the function     *)
(* threw (Object.entries of undefined or null) instead of returning.       *)
(***************************************************************************)
Statuses == {"filled", "unknown", "not_applicable"}

answerErrors(raw, slot) ==
  LET answer == raw.snap.answers[slot]
  IN  (IF answer.status = "" THEN << <<"must have status", slot>> >>
       ELSE IF answer.status \notin Statuses THEN << <<"has invalid status", slot>> >>
       ELSE << >>)
      \o (IF <<"confidence", slot>> \in raw.malformed
             \/ answer.confidence < 0 \/ answer.confidence > 100
          THEN << <<"must have confidence between 0 and 1", slot>> >> ELSE << >>)
      \o (IF <<"evidence_turn_ids", slot>> \in raw.malformed
          THEN << <<"must have evidence_turn_ids array", slot>> >> ELSE << >>)

validateSnapshot(raw) ==
  LET head ==
        (IF raw.snap.call_id = "" THEN << <<"call_id is required", "">> >> ELSE << >>)
        \o (IF <<"answers", "undefined">> \in raw.malformed
            THEN << <<"answers must be an object", "">> >> ELSE << >>)
        \o (IF <<"red_flags", "">> \in raw.malformed
            THEN << <<"red_flags must be an array", "">> >> ELSE << >>)
        \o (IF <<"completed", "">> \in raw.malformed
            THEN << <<"completed must be a boolean", "">> >> ELSE << >>)
        \o (IF raw.snap.timestamp = "" THEN << <<"timestamp is required", "">> >> ELSE << >>)
      entriesThrows == <<"answers", "undefined">> \in raw.malformed
                       \/ <<"answers", "null">> \in raw.malformed
      keys == SetToSeq(DOMAIN raw.snap.answers)
      errors == head \o Flatten([i \in 1..Len(keys) |-> answerErrors(raw, keys[i])])
  IN  IF entriesThrows
      THEN [threw |-> TRUE, valid |-> FALSE, errors |-> head]
      ELSE [threw |-> FALSE, valid |-> errors = << >>, errors |-> errors]

(***************************************************************************)
(* Orchestrator.  Its operations are operators from the orchestrator's     *)
(* state st = [sessions, snapshots, eventListeners] to an outcome          *)
(*   [st, error, ret, events, delivered],                                  *)
(* where error is "none" or the exception that reached the caller, ret     *)
(* the value returned, events the events passed to emitEvent, in order,    *)
(* and delivered the listener invocations they caused, in order.           *)
(* state.snapshot and snapshots.get(callId) are one object for as long as  *)
(* the call has a session (initializeSession and emitSnapshot store the    *)
(* same reference in both), so a mutation of state.snapshot in place       *)
(* shows in both.                                                          *)
(***************************************************************************)
NoRet == [action |-> "-"]

Outcome(st) ==
  [st |-> st, error |-> "none", ret |-> NoRet, events |-> << >>, delivered |-> << >>]

Throw(st, err) == [Outcome(st) EXCEPT !.error = err]

Event(type, callId, data) ==
  [type |-> type, call_id |-> callId, timestamp |-> Now, data |-> data]

\* One invocation of a listener; a listener that throws is caught and logged.
invoke(key, l, event) ==
  [listener |-> l, key |-> key, type |-> event.type, call_id |-> event.call_id,
   caught |-> l \in Throwing]

\* Mutant: no try/catch around the listener, the first throw ends the delivery.
emitEventUncaught(listeners, event) ==
  LET own == IF event.call_id \in DOMAIN listeners THEN listeners[event.call_id] ELSE << >>
      glob == IF WildcardId \in DOMAIN listeners THEN listeners[WildcardId] ELSE << >>
      all == [i \in 1..Len(own) |-> invoke(event.call_id, own[i], event)]
             \o [i \in 1..Len(glob) |-> invoke(WildcardId, glob[i], event)]
      thrown == {i \in 1..Len(all) : all[i].caught}
  IN  IF thrown = {} THEN all
      ELSE SubSeq(all, 1, CHOOSE i \in thrown : \A j \in thrown : i <= j)

\* listeners.indexOf(listener), then listeners.splice(index, 1)
spliceOut(list, l) ==
  IF \E i \in 1..Len(list) : list[i] = l
  THEN LET index == CHOOSE i \in 1..Len(list) : list[i] = l /\ \A j \in 1..(i-1) : list[j] # l
       IN  SubSeq(list, 1, index - 1) \o SubSeq(list, index + 1, Len(list))
  ELSE list

\* for (const listener of listeners): the array iterator reads the live
\* array at position i and stops when i passes its current length; what a
\* listener does to the array while it is invoked is seen by the loop.
RECURSIVE forOf(_, _, _, _, _)
forOf(listeners, key, i, event, delivered) ==
  IF key \notin DOMAIN listeners \/ i > Len(listeners[key])
  THEN [listeners |-> listeners, delivered |-> delivered]
  ELSE LET l == listeners[key][i]
           after == IF l \in Unsubscribing
                    THEN [listeners EXCEPT ![key] = spliceOut(@, l)]
                    ELSE listeners
       IN  forOf(after, key, i + 1, event, Append(delivered, invoke(key, l, event)))

\* The two loops of emitEvent: the listeners of the event's call id, then
\* the global ones.
notify(listeners, event) ==
  LET own == forOf(listeners, event.call_id, 1, event, << >>)
  IN  forOf(own.listeners, WildcardId, 1, event, own.delivered)

\* The invocations emitEvent makes: the listeners of the event's call id,
\* then the global ones, each list in registration order.
emitEvent(listeners, event) == notify(listeners, event).delivered

\* Mutant: the global listeners are invoked before those of the call.
EmitGlobalFirst(out, event) ==
  LET d == emitEvent(out.st.eventListeners, event)
      isGlobal(r) == r.key = WildcardId
      isOwn(r) == r.key # WildcardId
  IN  [out EXCEPT !.events = Append(@, event),
                  !.delivered = @ \o SelectSeq(d, isGlobal) \o SelectSeq(d, isOwn)]

\* The outcome after one more call of this.emitEvent(event).
Emit(out, event) ==
  [out EXCEPT !.events = Append(@, event),
              !.delivered = @ \o emitEvent(out.st.eventListeners, event),
              !.st.eventListeners = notify(@, event).listeners]

\* state.snapshot mutated in place (or replaced together with the store entry).
SetSnapshot(st, callId, snapshot) ==
  [st EXCEPT !.sessions[callId].snapshot = snapshot,
             !.snapshots = MapSet(@, callId, snapshot)]

initializeSession(st, callId) ==
  LET state == initializeState(callId)
      st2 == [st EXCEPT !.sessions = MapSet(@, callId, state),
                        !.snapshots = MapSet(@, callId, state.snapshot)]
  IN  Emit(Outcome(st2), Event("session_started", callId, [state |-> state]))

ClosingMessage ==
  "Thank you for providing all the information. A staff member will be with you shortly."

\* Mutant: every reason is pushed, included already or not.
pushAll(red_flags, flags) == red_flags \o [i \in 1..Len(flags) |-> flags[i].reason]

\* red_flags after the loop that pushes every reason not yet included.
RECURSIVE pushNew(_, _)
pushNew(red_flags, flags) ==
  IF flags = << >> THEN red_flags
  ELSE pushNew(IF Includes(red_flags, Head(flags).reason) THEN red_flags
               ELSE Append(red_flags, Head(flags).reason),
               Tail(flags))

\* Mutant: asking a question marks its slot in the snapshot.
processTranscriptMarksAsked(st, turn) ==
  IF turn.call_id \notin DOMAIN st.sessions THEN Throw(st, "SESSION_NOT_FOUND")
  ELSE
    LET c == turn.call_id
        state1 == addTranscriptTurn(st.sessions[c], turn)
        st1 == [st EXCEPT !.sessions[c] = state1]
        o1 == Emit(Outcome(st1),
                   Event(IF turn.is_final THEN "final" ELSE "partial", c, [turn |-> turn]))
        o2 == Emit(o1, Event("transcript_received", c, [turn |-> turn]))
        redFlags == checkRecentTurns(state1.turns)
        nextQuestion == getNextQuestion(state1)
    IN  IF ~turn.is_final THEN [o2 EXCEPT !.ret = [action |-> "none"]]
        ELSE IF Len(redFlags) > 0 THEN
          LET snap == [state1.snapshot EXCEPT !.red_flags = pushNew(@, redFlags)]
              o3 == [o2 EXCEPT !.st = SetSnapshot(st1, c, snap)]
              o4 == Emit(o3, Event("red_flag_detected", c, [flags |-> redFlags]))
          IN  [o4 EXCEPT !.ret = [action |-> "request_handoff", call_id |-> c,
                                  reason |-> redFlags[1].reason,
                                  priority |-> redFlags[1].priority]]
        ELSE IF nextQuestion = NoQuestion THEN
          LET snap == [state1.snapshot EXCEPT !.completed = TRUE]
              o3 == [o2 EXCEPT !.st = SetSnapshot(st1, c, snap)]
              o4 == Emit(o3, Event("intake_completed", c, [snapshot |-> snap]))
          IN  [o4 EXCEPT !.ret = [action |-> "speak", ssml |-> ClosingMessage,
                                  emotion |-> "calm"]]
        ELSE
          LET asked == [value |-> "", confidence |-> 0, status |-> "not_applicable",
                        evidence_turn_ids |-> << >>]
              snap == [state1.snapshot EXCEPT !.answers = MapSet(@, nextQuestion.slot, asked)]
              o3 == [o2 EXCEPT !.st = SetSnapshot(st1, c, snap)]
          IN  [o3 EXCEPT !.ret = [action |-> "ask_question", question |-> nextQuestion,
                                  prompt |-> buildQuestionPrompt(nextQuestion, state1)]]

processTranscript(st, turn) ==
  IF turn.call_id \notin DOMAIN st.sessions THEN Throw(st, "SESSION_NOT_FOUND")
  ELSE
    LET c == turn.call_id
        state1 == addTranscriptTurn(st.sessions[c], turn)
        st1 == [st EXCEPT !.sessions[c] = state1]
        o1 == Emit(Outcome(st1),
                   Event(IF turn.is_final THEN "final" ELSE "partial", c, [turn |-> turn]))
        o2 == Emit(o1, Event("transcript_received", c, [turn |-> turn]))
        redFlags == checkRecentTurns(state1.turns)
        nextQuestion == getNextQuestion(state1)
    IN  IF ~turn.is_final THEN [o2 EXCEPT !.ret = [action |-> "none"]]
        ELSE IF Len(redFlags) > 0 THEN
          LET snap == [state1.snapshot EXCEPT !.red_flags = pushNew(@, redFlags)]
              o3 == [o2 EXCEPT !.st = SetSnapshot(st1, c, snap)]
              o4 == Emit(o3, Event("red_flag_detected", c, [flags |-> redFlags]))
          IN  [o4 EXCEPT !.ret = [action |-> "request_handoff", call_id |-> c,
                                  reason |-> redFlags[1].reason,
                                  priority |-> redFlags[1].priority]]
        ELSE IF nextQuestion = NoQuestion THEN
          LET snap == [state1.snapshot EXCEPT !.completed = TRUE]
              o3 == [o2 EXCEPT !.st = SetSnapshot(st1, c, snap)]
              o4 == Emit(o3, Event("intake_completed", c, [snapshot |-> snap]))
          IN  [o4 EXCEPT !.ret = [action |-> "speak", ssml |-> ClosingMessage,
                                  emotion |-> "calm"]]
        ELSE [o2 EXCEPT !.ret = [action |-> "ask_question", question |-> nextQuestion,
                                 prompt |-> buildQuestionPrompt(nextQuestion, state1)]]

\* Mutant: the session state keeps its old snapshot.
emitSnapshotStoreOnly(st, callId, raw) ==
  LET validation == validateSnapshot(raw)
      st1 == [st EXCEPT !.snapshots = MapSet(@, callId, raw.snap)]
      o1 == Emit(Outcome(st1), Event("snapshot_updated", callId, [snapshot |-> raw.snap]))
  IN  IF validation.threw THEN Throw(st, "TYPE_ERROR")
      ELSE IF ~validation.valid
        THEN [Throw(st, "VALIDATION_ERROR") EXCEPT !.ret = [action |-> "-", errors |-> validation.errors]]
      ELSE Emit(o1, Event("snapshot_update", callId, [snapshot |-> raw.snap]))

emitSnapshot(st, callId, raw) ==
  LET validation == validateSnapshot(raw)
      snapshot == raw.snap
      st1 == [st EXCEPT !.snapshots = MapSet(@, callId, snapshot)]
      st2 == IF callId \in DOMAIN st.sessions
             THEN [st1 EXCEPT !.sessions[callId].snapshot = snapshot]
             ELSE st1
      o1 == Emit(Outcome(st2), Event("snapshot_updated", callId, [snapshot |-> snapshot]))
  IN  IF validation.threw THEN Throw(st, "TYPE_ERROR")
      ELSE IF ~validation.valid
        THEN [Throw(st, "VALIDATION_ERROR") EXCEPT !.ret = [action |-> "-", errors |-> validation.errors]]
      ELSE Emit(o1, Event("snapshot_update", callId, [snapshot |-> snapshot]))

\* Mutant: the handoff ends the call.
requestHandoffEndsCall(st, request) ==
  LET o1 == Emit(Outcome(st), Event("handoff_requested", request.call_id, request))
  IN  [o1 EXCEPT !.st.sessions = MapDelete(@, request.call_id),
                 !.st.eventListeners = MapDelete(@, request.call_id)]

requestHandoff(st, request) ==
  Emit(Outcome(st), Event("handoff_requested", request.call_id, request))

processFunctionCall(st, callId, functionCall) ==
  IF callId \notin DOMAIN st.sessions THEN Throw(st, "SESSION_NOT_FOUND")
  ELSE CASE functionCall.name = "emit_snapshot" ->
              emitSnapshot(st, callId, functionCall.arguments.snapshot)
         [] functionCall.name = "request_handoff" ->
              requestHandoff(st, functionCall.arguments)
         [] functionCall.name = "speak" ->
              Emit(Outcome(st), Event("speak_request", callId, functionCall.arguments))
         [] OTHER -> Outcome(st)

updateSlot(st, callId, slot, value, confidence, evidenceTurnIds) ==
  IF callId \notin DOMAIN st.sessions THEN Throw(st, "SESSION_NOT_FOUND")
  ELSE
    LET state1 == updateSnapshot(st.sessions[callId], slot, value, confidence, evidenceTurnIds)
        st1 == SetSnapshot(st, callId, state1.snapshot)
        o1 == Emit(Outcome(st1),
                   Event("slot_updated", callId,
                         [slot |-> slot, value |-> value, confidence |-> confidence]))
    IN  [o1 EXCEPT !.ret = [action |-> "-", snapshot |-> state1.snapshot]]

addEventListener(st, callId, listener) ==
  LET l1 == IF callId \in DOMAIN st.eventListeners THEN st.eventListeners
            ELSE MapSet(st.eventListeners, callId, << >>)
  IN  Outcome([st EXCEPT !.eventListeners = [l1 EXCEPT ![callId] = Append(@, listener)]])

\* Mutant: the whole list of the call id is dropped.
removeEventListenerAll(st, callId, listener) ==
  LET index == IF callId \in DOMAIN st.eventListeners
               THEN IndexOf(st.eventListeners[callId], listener) ELSE 0
      o1 == IF index > 0
            THEN Outcome([st EXCEPT !.eventListeners[callId] = << >>])
            ELSE Outcome(st)
  IN  [o1 EXCEPT !.ret = [action |-> "-", index |-> index]]

\* ret.index is the local index of the code, counted from 1 (0: not found,
\* or no list under the call id); nothing is returned to the caller.
removeEventListener(st, callId, listener) ==
  LET index == IF callId \in DOMAIN st.eventListeners
               THEN IndexOf(st.eventListeners[callId], listener) ELSE 0
      o1 == IF index > 0
            THEN Outcome([st EXCEPT !.eventListeners[callId] = RemoveAt(@, index)])
            ELSE Outcome(st)
  IN  [o1 EXCEPT !.ret = [action |-> "-", index |-> index]]

\* Mutant: the subscriptions are deleted before session_ended is emitted.
endSessionDeleteFirst(st, callId) ==
  LET st1 == [st EXCEPT !.eventListeners = MapDelete(@, callId)]
  IN  IF callId \in DOMAIN st.sessions
      THEN Emit(Outcome(st1), Event("session_ended", callId,
                                    [snapshot |-> st.sessions[callId].snapshot]))
      ELSE Outcome(st1)

endSession(st, callId) ==
  LET o1 == IF callId \in DOMAIN st.sessions
            THEN Emit(Outcome(st), Event("session_ended", callId,
                                         [snapshot |-> st.sessions[callId].snapshot]))
            ELSE Outcome(st)
  IN  [o1 EXCEPT !.st.eventListeners = MapDelete(@, callId)]

(***************************************************************************)
(* HTTP routes over the orchestrator (app/api/v1/transcript/route.ts,      *)
(* app/api/v1/emit_snapshot/route.ts).  http is the response status.       *)
(***************************************************************************)
postTranscript(st, turn) ==
  IF turn.call_id = "" \/ turn.text = << >>
  THEN [out |-> Throw(st, "missing required fields"), http |-> 400]
  ELSE LET o0 == IF turn.call_id \in DOMAIN st.sessions THEN Outcome(st)
                 ELSE initializeSession(st, turn.call_id)
           o1 == processTranscript(o0.st, turn)
           o2 == [o1 EXCEPT !.events = o0.events \o @, !.delivered = o0.delivered \o @]
       IN  [out |-> o2, http |-> IF o2.error = "none" THEN 200 ELSE 500]

postEmitSnapshot(st, raw) ==
  IF raw.snap.call_id = ""
  THEN [out |-> Throw(st, "VALIDATION_ERROR"), http |-> 400]
  ELSE LET o1 == emitSnapshot(st, raw.snap.call_id, raw)
       IN  [out |-> o1, http |-> IF o1.error = "none" THEN 200 ELSE 500]

(***************************************************************************)
(* Inputs.                                                                 *)
(***************************************************************************)
TextCardiac ==
  <<"i","have","severe","chest","pain","and","i","have","shortness","of","breath">>
TextBenign == <<"hello">>
TextChest == <<"my","CHEST","Pain">>
TextBreath == <<"shortness","of","breath">>
TextFainted == <<"i","fainted">>
TextPainFainted == <<"unbearable","pain","and","i","fainted">>

TurnInput(speaker, text, is_final) ==
  [speaker |-> speaker, text |-> text, is_final |-> is_final]

\* The turn a caller posts: turn ids number the turns of a call.
Turn(callId, turnId, in) ==
  [turn_id |-> turnId, call_id |-> callId, speaker |-> in.speaker,
   text |-> in.text, is_final |-> in.is_final]

NextTurnId(callId) ==
  IF callId \in DOMAIN sessions THEN Len(sessions[callId].turns) + 1 ELSE 1

Answer(value, confidence, status, evidence) ==
  [value |-> value, confidence |-> confidence, status |-> status,
   evidence_turn_ids |-> evidence]

Snapshot(callId, answers, red_flags, completed, timestamp) ==
  [call_id |-> callId, patient |-> EmptyMap, answers |-> answers,
   red_flags |-> red_flags, completed |-> completed, timestamp |-> timestamp]

\* The snapshot of tests/smoke/assertions.js testIntakeSnapshot.
RawTest(callId) ==
  [snap |-> [Snapshot(callId,
                      [k \in {"full_name", "chief_complaint"} |->
                         IF k = "full_name" THEN Answer("v1", 95, "filled", <<1>>)
                         ELSE Answer("v2", 88, "filled", <<2>>)],
                      << >>, FALSE, "t1")
             EXCEPT !.patient = [k \in {"full_name"} |-> "v1"]],
   malformed |-> {}]

RawCompletedEmpty(callId) ==
  [snap |-> Snapshot(callId, EmptyMap, << >>, TRUE, "t1"), malformed |-> {}]

RawNoAnswers(callId) ==
  [snap |-> Snapshot(callId, EmptyMap, << >>, FALSE, "t1"),
   malformed |-> {<<"answers", "undefined">>}]

RawBadAnswer(callId) ==
  [snap |-> Snapshot(callId,
                     [k \in {"full_name"} |-> Answer("v1", 150, "bogus", << >>)],
                     << >>, FALSE, ""),
   malformed |-> {<<"completed", "">>}]

RawSnapshots(callId) ==
  {RawTest(callId), RawCompletedEmpty(callId), RawNoAnswers(callId), RawBadAnswer(callId)}

(***************************************************************************)
(* Actions: one per operation; result records the operation, its           *)
(* arguments and what it gave back to its caller.                          *)
(***************************************************************************)
Cur == [sessions |-> sessions, snapshots |-> snapshots, eventListeners |-> eventListeners]

Apply(op, callId, args, out, http) ==
  /\ sessions' = out.st.sessions
  /\ snapshots' = out.st.snapshots
  /\ eventListeners' = out.st.eventListeners
  /\ result' = [op |-> op, call_id |-> callId, args |-> args, http |-> http,
                error |-> out.error, ret |-> out.ret,
                events |-> out.events, delivered |-> out.delivered]

\* An operation called directly: no request handler is involved.
Do(op, callId, args, out, http) ==
  /\ Apply(op, callId, args, out, http)
  /\ UNCHANGED <<requests, routeVars, serviceVars>>

RequestIds == {"r1", "r2"}

\* The route modules that keep an orchestrator of their own: each declares
\* 'let orchestratorInstance' and creates it on first use.
RouteModules == {"transcript", "emit_snapshot", "request_handoff", "live"}

\* new Orchestrator()
NewOrchestrator == [sessions |-> EmptyMap, snapshots |-> EmptyMap, eventListeners |-> EmptyMap]

\* The SSE streams GET /api/v1/live can open; a stream's listener is named
\* by the stream.
StreamIds == {"s1", "s2"}

(***************************************************************************)
(* TwinMind service (lib/services/twinmind.ts), API mode.  A promise is    *)
(* numbered by the call of submitChunk that returned it:                   *)
(*   state  "pending", or what it resolved with: the job's status          *)
(*   outer  the promise of the request that awaits this one (0: a caller)  *)
(*   limited  a fetch for it was answered with 429                         *)
(* running is the request processQueue awaits (0: none) and pc the await   *)
(* that request is suspended at: "fetch" (line 91), "delay" (line 116) or  *)
(* "inner" (the promise of the submitChunk at line 117).  minute and day   *)
(* count the requestTimestamps of the last minute and of the last day.     *)
(***************************************************************************)
\* TWINMIND_MAX_RPM and TWINMIND_MAX_RPD of the environment (60 and 1000 when
\* they are not set).
maxRPM == 2

maxRPD == 3

NewTwinMind ==
  [requestQueue |-> << >>, isProcessingQueue |-> FALSE, running |-> 0, pc |-> "idle",
   minute |-> 0, day |-> 0, promises |-> << >>]

\* A promise settles; the request awaiting it goes on and returns the same
\* value, which settles its own promise.
RECURSIVE settle(_, _, _)
settle(promises, p, value) ==
  LET settled == [promises EXCEPT ![p].state = value]
  IN  IF promises[p].outer = 0 THEN settled
      ELSE settle(settled, promises[p].outer, value)

\* submitChunk up to the return of queueRequest's promise: the request is
\* pushed, and processQueue is called when it is not running.
submitChunk(tm, outer) ==
  [tm EXCEPT !.promises = Append(@, [state |-> "pending", outer |-> outer, limited |-> FALSE]),
             !.requestQueue = Append(@, Len(tm.promises) + 1),
             !.isProcessingQueue = TRUE]

(***************************************************************************)
(* Streaming ASR adapter (part_003).  Connections are numbered in the      *)
(* order listen.live() returns them; conns gives each the last event it    *)
(* emitted ("created" before any); a connection emits Open and Error at    *)
(* most once each and nothing after Close.  timers counts the pending      *)
(* setTimeout calls of handleReconnect.  started and closed record that    *)
(* the owner called start() and close(); sinceOpen counts the reconnect    *)
(* attempts made since a connection last opened and lastDelay is the       *)
(* delay of the last of them, in seconds.                                  *)
(***************************************************************************)
maxReconnectAttempts == 5

reconnectDelay == 1

RECURSIVE Pow2(_)
Pow2(n) == IF n = 0 THEN 1 ELSE 2 * Pow2(n - 1)

\* new StreamingASRAdapter(...), before start().
NewAdapter ==
  [isDeveloperMode |-> FALSE, connection |-> 0, conns |-> << >>, isConnected |-> FALSE,
   reconnectAttempts |-> 0, timers |-> 0, started |-> FALSE, closed |-> FALSE,
   sinceOpen |-> 0, lastDelay |-> 0]

\* handleReconnect up to its setTimeout.
handleReconnect(a) ==
  IF a.reconnectAttempts >= maxReconnectAttempts THEN a
  ELSE LET delay == reconnectDelay * Pow2(a.reconnectAttempts)
       IN  [a EXCEPT !.reconnectAttempts = @ + 1,
                     !.timers = @ + 1,
                     !.sinceOpen = @ + 1,
                     !.lastDelay = delay]

\* start(); throws tells whether client.listen.live(...) throws.
start(a, throws) ==
  IF a.isDeveloperMode THEN [a EXCEPT !.isConnected = TRUE]
  ELSE IF throws THEN handleReconnect(a)
  ELSE [a EXCEPT !.connection = Len(a.conns) + 1,
                 !.conns = Append(@, "created"),
                 !.isConnected = TRUE,
                 !.reconnectAttempts = 0]

Init ==
  /\ twinmind = NewTwinMind
  /\ asr = NewAdapter
  /\ requests = [r \in RequestIds |-> [pc |-> "idle"]]
  /\ routes = [m \in RouteModules |-> NewOrchestrator]
  /\ streams = [s \in StreamIds |-> [open |-> FALSE, call_id |-> "", messages |-> << >>]]
  /\ sessions = EmptyMap
  /\ snapshots = EmptyMap
  /\ eventListeners = EmptyMap
  /\ result = [op |-> "constructor", call_id |-> "", args |-> [none |-> TRUE], http |-> 0,
               error |-> "none", ret |-> NoRet, events |-> << >>, delivered |-> << >>]

InitializeSession(c) ==
  Do("initializeSession", c, [none |-> TRUE], initializeSession(Cur, c), 0)

\* Mutant: every turn is processed as a final one.
ProcessTranscriptAsFinal(c, in) ==
  LET turn == Turn(c, NextTurnId(c), in)
  IN  Do("processTranscript", c, [turn |-> turn],
         processTranscript(Cur, [turn EXCEPT !.is_final = TRUE]), 0)

ProcessTranscript(c, in) ==
  LET turn == Turn(c, NextTurnId(c), in)
  IN  Do("processTranscript", c, [turn |-> turn], processTranscript(Cur, turn), 0)

PostTranscript(c, in) ==
  LET turn == Turn(c, NextTurnId(c), in)
      r == postTranscript(Cur, turn)
  IN  Do("POST /api/v1/transcript", c, [turn |-> turn], r.out, r.http)

ProcessFunctionCall(c, functionCall) ==
  Do("processFunctionCall", c, [functionCall |-> functionCall],
     processFunctionCall(Cur, c, functionCall), 0)

EmitSnapshot(c, raw) ==
  Do("emitSnapshot", c, [snapshot |-> raw], emitSnapshot(Cur, c, raw), 0)

PostEmitSnapshot(raw) ==
  LET r == postEmitSnapshot(Cur, raw)
  IN  Do("POST /api/v1/emit_snapshot", raw.snap.call_id, [snapshot |-> raw], r.out, r.http)

RequestHandoff(request) ==
  Do("requestHandoff", request.call_id, [request |-> request], requestHandoff(Cur, request), 0)

UpdateSlot(c, slot, value, confidence, evidence) ==
  Do("updateSlot", c,
     [slot |-> slot, value |-> value, confidence |-> confidence, evidence |-> evidence],
     updateSlot(Cur, c, slot, value, confidence, evidence), 0)

AddEventListener(k, l) ==
  Do("addEventListener", k, [listener |-> l], addEventListener(Cur, k, l), 0)

RemoveEventListener(k, l) ==
  Do("removeEventListener", k, [listener |-> l], removeEventListener(Cur, k, l), 0)

EndSession(c) ==
  Do("endSession", c, [none |-> TRUE], endSession(Cur, c), 0)

(***************************************************************************)
(* Spec: every operation, over two calls.                                  *)
(***************************************************************************)
RECURSIVE SumTurns(_, _)
SumTurns(ss, S) ==
  IF S = {} THEN 0
  ELSE LET c == CHOOSE x \in S : TRUE IN Len(ss[c].turns) + SumTurns(ss, S \ {c})

TotalTurns == SumTurns(sessions, DOMAIN sessions)

TurnInputs ==
  {TurnInput("patient", TextCardiac, TRUE),
   TurnInput("patient", TextBenign, TRUE)}

RequiredSlots == {Questions[i].slot : i \in RequiredIdx}

HandoffRequests(c) ==
  {[call_id |-> c, reason |-> "patient asked for staff", priority |-> "normal"]}

CoreSnapshots(c) == {RawTest(c), RawCompletedEmpty(c), RawNoAnswers(c), RawBadAnswer(c)}

FunctionCalls(c, raws) ==
  {[name |-> "emit_snapshot", arguments |-> [snapshot |-> raw]] : raw \in raws}
  \cup {[name |-> "request_handoff", arguments |-> r] : r \in HandoffRequests(c)}
  \cup {[name |-> "speak", arguments |-> [ssml |-> "hello", emotion |-> "calm"]]}

Next ==
  \/ \E c \in CallIds : InitializeSession(c)
  \/ \E c \in CallIds, in \in TurnInputs : TotalTurns < MaxTurns /\ ProcessTranscript(c, in)
  \/ \E c \in CallIds, in \in TurnInputs : TotalTurns < MaxTurns /\ PostTranscript(c, in)
  \/ \E c \in CallIds : \E fc \in FunctionCalls(c, CoreSnapshots(c)) : ProcessFunctionCall(c, fc)
  \/ \E c \in CallIds : \E raw \in CoreSnapshots(c) : EmitSnapshot(c, raw)
  \/ \E c \in CallIds \cup {""} : \E raw \in CoreSnapshots(c) : PostEmitSnapshot(raw)
  \/ \E c \in CallIds : \E r \in HandoffRequests(c) : RequestHandoff(r)
  \/ \E c \in CallIds, slot \in RequiredSlots : UpdateSlot(c, slot, "v1", 60, << >>)
  \/ \E c \in CallIds : EndSession(c)

Spec == Init /\ [][Next]_vars

(***************************************************************************)
(* SpecTurns: one call, long turn logs.  The first MaxRichTurns turns of a *)
(* log draw from every input; the later ones are benign final turns, which *)
(* slide the screening window.                                             *)
(***************************************************************************)
TheCall == "c1"

LogLen(c) == IF c \in DOMAIN sessions THEN Len(sessions[c].turns) ELSE 0

RichTurnInputs ==
  {TurnInput("patient", TextCardiac, TRUE),
   TurnInput("patient", TextBenign, TRUE),
   TurnInput("patient", TextChest, FALSE),
   TurnInput("patient", TextBreath, TRUE),
   TurnInput("patient", TextFainted, TRUE),
   TurnInput("patient", TextPainFainted, TRUE),
   TurnInput("patient", TextFainted, FALSE),
   TurnInput("agent", TextCardiac, TRUE)}

NextTurns ==
  \/ InitializeSession(TheCall)
  \/ \E in \in RichTurnInputs :
        LogLen(TheCall) < MaxRichTurns /\ ProcessTranscript(TheCall, in)
  \/ /\ LogLen(TheCall) >= MaxRichTurns
     /\ LogLen(TheCall) < MaxLongTurns
     /\ ProcessTranscript(TheCall, TurnInput("patient", TextBenign, TRUE))
  \/ /\ LogLen(TheCall) = MaxLongTurns - 1
     /\ ProcessTranscript(TheCall, TurnInput("patient", TextBreath, TRUE))
  \/ \E slot \in RequiredSlots, confidence \in {59, 60} :
        UpdateSlot(TheCall, slot, "v1", confidence, << >>)

SpecTurns == Init /\ [][NextTurns]_vars

(***************************************************************************)
(* SpecEvents: listeners on two calls and on the wildcard id.              *)
(***************************************************************************)
RECURSIVE SumLens(_, _)
SumLens(m, S) ==
  IF S = {} THEN 0
  ELSE LET k == CHOOSE x \in S : TRUE IN Len(m[k]) + SumLens(m, S \ {k})

TotalListeners == SumLens(eventListeners, DOMAIN eventListeners)

NextEvents ==
  \/ \E c \in CallIds : InitializeSession(c)
  \/ \E c \in CallIds :
        TotalTurns < MaxTurns /\ ProcessTranscript(c, TurnInput("patient", TextBenign, TRUE))
  \/ \E c \in CallIds : UpdateSlot(c, "full_name", "v1", 60, << >>)
  \/ \E c \in CallIds : \E r \in HandoffRequests(c) : RequestHandoff(r)
  \/ \E k \in ListenerKeys, l \in ListenerIds :
        TotalListeners < MaxListeners /\ AddEventListener(k, l)
  \/ \E k \in ListenerKeys, l \in ListenerIds : RemoveEventListener(k, l)
  \/ \E c \in CallIds : EndSession(c)

SpecEvents == Init /\ [][NextEvents]_vars

(***************************************************************************)
(* SpecSlots: one call; values are applied to every slot of the catalog,   *)
(* over, under and at the confidence threshold, with evidence turn ids,    *)
(* and snapshots are emitted between the turns.                            *)
(***************************************************************************)
\* The snapshot an extractor emits when it is unsure of the name.
RawUnsureName(callId) ==
  [snap |-> Snapshot(callId,
                     [k \in {"full_name"} |-> Answer("v2", 30, "unknown", <<2>>)],
                     << >>, FALSE, "t2"),
   malformed |-> {}]

SlotInputs ==
  {[value |-> "v1", confidence |-> 59, evidence |-> << >>],
   [value |-> "v1", confidence |-> 60, evidence |-> <<1>>],
   [value |-> "v2", confidence |-> 95, evidence |-> <<1, 2>>]}

NextSlots ==
  \/ InitializeSession(TheCall)
  \/ /\ LogLen(TheCall) < MaxSlotTurns
     /\ ProcessTranscript(TheCall, TurnInput("patient", TextBenign, TRUE))
  \/ \E slot \in Slots, in \in SlotInputs :
        UpdateSlot(TheCall, slot, in.value, in.confidence, in.evidence)
  \/ \E raw \in {RawTest(TheCall), RawUnsureName(TheCall)} : EmitSnapshot(TheCall, raw)

SpecSlots == Init /\ [][NextSlots]_vars

(***************************************************************************)
(* SpecEngine: the slot engine's addTranscriptTurn called directly on the   *)
(* state of a call, with turns of either call id.                          *)
(***************************************************************************)
AddTranscriptTurn(c, turn) ==
  /\ c \in DOMAIN sessions
  /\ Do("addTranscriptTurn", c, [turn |-> turn],
        Outcome([Cur EXCEPT !.sessions[c] = addTranscriptTurn(@, turn)]), 0)

NextEngine ==
  \/ \E c \in CallIds : InitializeSession(c)
  \/ \E c \in CallIds, of \in CallIds, in \in TurnInputs :
        /\ LogLen(c) < MaxSlotTurns
        /\ AddTranscriptTurn(c, Turn(of, NextTurnId(c), in))

SpecEngine == Init /\ [][NextEngine]_vars

(***************************************************************************)
(* SpecFanout: notifications (the request_handoff and speak function       *)
(* calls, requestHandoff) fanned out to per-call and wildcard listeners;   *)
(* a call may have any string as its id, '*' included.                     *)
(***************************************************************************)
FanoutCalls == CallIds \cup {WildcardId}

Notifications(c) ==
  {[name |-> "request_handoff", arguments |-> r] : r \in HandoffRequests(c)}
  \cup {[name |-> "speak", arguments |-> [ssml |-> "hello", emotion |-> "calm"]]}

NextFanout ==
  \/ \E c \in FanoutCalls : InitializeSession(c)
  \/ \E c \in FanoutCalls : \E fc \in Notifications(c) : ProcessFunctionCall(c, fc)
  \/ \E c \in FanoutCalls : \E r \in HandoffRequests(c) : RequestHandoff(r)
  \/ \E k \in ListenerKeys, l \in ListenerIds :
        TotalListeners < MaxFanout /\ AddEventListener(k, l)

SpecFanout == Init /\ [][NextFanout]_vars

(***************************************************************************)
(* SpecRequests: concurrent requests to POST /api/v1/transcript for one    *)
(* call.  A handler is an async function: it gives up control at an await  *)
(* and nowhere else.  pc is the await a request is suspended at:           *)
(*   "json"  await request.json()                      (part_002:21)       *)
(*   "await" await orchestrator.processTranscript(turn) (part_002:39)      *)
(* processTranscript has no await of its own, so lines 22-39 and the whole *)
(* of processTranscript run as one step.                                   *)
(***************************************************************************)
\* The requests whose turn is not in the log yet.
Posted == Cardinality({r \in RequestIds : requests[r].pc = "json"})

PostedInputs ==
  {TurnInput("patient", TextCardiac, TRUE),
   TurnInput("patient", TextBenign, TRUE),
   TurnInput("patient", TextChest, FALSE)}

\* A request arrives; its body is being read.
ReceiveTranscript(r, in) ==
  /\ requests[r].pc = "idle"
  /\ LogLen(TheCall) + Posted < MaxPosted
  /\ LET turn == Turn(TheCall, LogLen(TheCall) + Posted + 1, in)
     IN  /\ requests' = [requests EXCEPT ![r] = [pc |-> "json", turn |-> turn]]
         /\ Apply("request.json()", TheCall, [turn |-> turn], Outcome(Cur), 0)
         /\ UNCHANGED <<routeVars, serviceVars>>

\* Mutant: processTranscript gives up control between the append to the log
\* and the screening.
HandleTranscriptYielding(r) ==
  \/ /\ requests[r].pc = "json"
     /\ LET turn == requests[r].turn
            o0 == IF turn.call_id \in DOMAIN sessions THEN Outcome(Cur)
                  ELSE initializeSession(Cur, turn.call_id)
            st1 == [o0.st EXCEPT !.sessions[turn.call_id] = addTranscriptTurn(@, turn)]
        IN  /\ Apply("POST /api/v1/transcript", turn.call_id, [turn |-> turn],
                     [o0 EXCEPT !.st = st1], 0)
            /\ requests' = [requests EXCEPT ![r].pc = "appended"]
            /\ UNCHANGED <<routeVars, serviceVars>>
  \/ /\ requests[r].pc = "appended"
     /\ LET turn == requests[r].turn
            log == sessions[turn.call_id].turns
            isOther(t) == t # turn
            st0 == [Cur EXCEPT !.sessions[turn.call_id].turns = SelectSeq(log, isOther)]
            o1 == processTranscript(st0, turn)
            o2 == [o1 EXCEPT !.st.sessions[turn.call_id].turns = log]
        IN  /\ Apply("POST /api/v1/transcript", turn.call_id, [turn |-> turn], o2, 200)
            /\ requests' = [requests EXCEPT ![r] = [pc |-> "await", turn |-> turn, http |-> 200]]
            /\ UNCHANGED <<routeVars, serviceVars>>

\* The body was read: the turn is checked, the session ensured and the turn
\* processed, up to the await of the promise processTranscript returns.
HandleTranscript(r) ==
  /\ requests[r].pc = "json"
  /\ LET turn == requests[r].turn
         post == postTranscript(Cur, turn)
     IN  /\ Apply("POST /api/v1/transcript", turn.call_id, [turn |-> turn], post.out, post.http)
         /\ requests' = [requests EXCEPT ![r] = [pc |-> "await", turn |-> turn,
                                                 http |-> post.http]]
         /\ UNCHANGED <<routeVars, serviceVars>>

\* The response is returned.
RespondTranscript(r) ==
  /\ requests[r].pc = "await"
  /\ requests' = [requests EXCEPT ![r] = [pc |-> "idle"]]
  /\ Apply("NextResponse.json", requests[r].turn.call_id, [turn |-> requests[r].turn],
           Outcome(Cur), requests[r].http)
  /\ UNCHANGED <<routeVars, serviceVars>>

NextRequests ==
  \/ \E r \in RequestIds, in \in PostedInputs : ReceiveTranscript(r, in)
  \/ \E r \in RequestIds : HandleTranscript(r)
  \/ \E r \in RequestIds : RespondTranscript(r)
  \/ \E slot \in RequiredSlots : UpdateSlot(TheCall, slot, "v1", 95, << >>)

SpecRequests == Init /\ [][NextRequests]_vars

(***************************************************************************)
(* SpecUnsub: listeners of which one unsubscribes itself while an event is *)
(* delivered to it.                                                        *)
(***************************************************************************)
UnsubListeners == {"l1", "lthrow"} \cup Unsubscribing

UnsubKeys == {TheCall, WildcardId}

NextUnsub ==
  \/ InitializeSession(TheCall)
  \/ ProcessFunctionCall(TheCall, [name |-> "speak",
                                   arguments |-> [ssml |-> "hello", emotion |-> "calm"]])
  \/ LogLen(TheCall) < 1 /\ ProcessTranscript(TheCall, TurnInput("patient", TextBenign, FALSE))
  \/ \E k \in UnsubKeys, l \in UnsubListeners :
        TotalListeners < MaxUnsub /\ AddEventListener(k, l)
  \/ \E k \in UnsubKeys, l \in UnsubListeners : RemoveEventListener(k, l)

SpecUnsub == Init /\ [][NextUnsub]_vars

(***************************************************************************)
(* SpecRoutes: the HTTP routes, each on the orchestrator of its module:    *)
(* POST /api/v1/transcript (part_002), POST and GET /api/v1/emit_snapshot  *)
(* (part_007), POST and GET /api/v1/request_handoff                        *)
(* (app/api/v1/request_handoff/route.ts) and GET /api/v1/live (part_009),  *)
(* whose listener writes the events it is given to its SSE stream.         *)
(***************************************************************************)
\* The event of a delivery record, among the events of the operation.
EventOf(events, type) == events[CHOOSE i \in 1..Len(events) : events[i].type = type]

\* controller.enqueue of every event delivered to the listener of a stream.
Enqueued(ss, out) ==
  [s \in DOMAIN ss |->
     LET mine(d) == d.listener = s
         recs == SelectSeq(out.delivered, mine)
     IN  [ss[s] EXCEPT !.messages = @ \o [i \in 1..Len(recs) |-> EventOf(out.events, recs[i].type)]]]

RouteApply(op, m, callId, args, out, http) ==
  /\ routes' = [routes EXCEPT ![m] = out.st]
  /\ streams' = Enqueued(streams, out)
  /\ result' = [op |-> op, call_id |-> callId, args |-> args, http |-> http,
                error |-> out.error, ret |-> out.ret,
                events |-> out.events, delivered |-> out.delivered]
  /\ UNCHANGED <<sessions, snapshots, eventListeners, requests, serviceVars>>

RouteTurns(m) ==
  SumTurns(routes[m].sessions, DOMAIN routes[m].sessions)

RoutePostTranscript(c, in) ==
  LET st == routes["transcript"]
      turnId == IF c \in DOMAIN st.sessions THEN Len(st.sessions[c].turns) + 1 ELSE 1
      turn == Turn(c, turnId, in)
      post == postTranscript(st, turn)
  IN  RouteApply("POST /api/v1/transcript", "transcript", c, [turn |-> turn], post.out, post.http)

RoutePostEmitSnapshot(raw) ==
  LET post == postEmitSnapshot(routes["emit_snapshot"], raw)
  IN  RouteApply("POST /api/v1/emit_snapshot", "emit_snapshot", raw.snap.call_id,
                 [snapshot |-> raw], post.out, post.http)

\* GET /api/v1/emit_snapshot?call_id=c
RouteGetSnapshot(c) ==
  LET st == routes["emit_snapshot"]
      found == c \in DOMAIN st.snapshots
      out == IF found
             THEN [Outcome(st) EXCEPT !.ret = [action |-> "-", snapshot |-> st.snapshots[c]]]
             ELSE Throw(st, "Snapshot not found")
  IN  RouteApply("GET /api/v1/emit_snapshot", "emit_snapshot", c, [none |-> TRUE], out,
                 IF found THEN 200 ELSE 404)

RoutePostHandoff(request) ==
  LET st == routes["request_handoff"]
      bad == request.call_id = "" \/ request.reason = ""
      out == IF bad THEN Throw(st, "call_id and reason required") ELSE requestHandoff(st, request)
  IN  RouteApply("POST /api/v1/request_handoff", "request_handoff", request.call_id,
                 [request |-> request], out, IF bad THEN 400 ELSE 200)

\* GET /api/v1/request_handoff?call_id=c
RouteGetHandoff(c) ==
  LET st == routes["request_handoff"]
      found == c \in DOMAIN st.sessions
      out == IF found
             THEN [Outcome(st) EXCEPT
                     !.ret = [action |-> "-",
                              red_flags |-> st.sessions[c].snapshot.red_flags,
                              requires_handoff |-> st.sessions[c].snapshot.red_flags # << >>]]
             ELSE Throw(st, "Session not found")
  IN  RouteApply("GET /api/v1/request_handoff", "request_handoff", c, [none |-> TRUE], out,
                 IF found THEN 200 ELSE 404)

\* GET /api/v1/live?call_id=c, the stream's start(): the connection message,
\* the listener, and the current state of a specific call that has a session.
RouteGetLive(s, c) ==
  /\ ~streams[s].open
  /\ LET st == routes["live"]
         out == addEventListener(st, c, s)
         dump == IF c # WildcardId /\ c \in DOMAIN out.st.sessions
                 THEN <<[type |-> "current_state", call_id |-> c,
                         snapshot |-> out.st.sessions[c].snapshot,
                         turns |-> out.st.sessions[c].turns, timestamp |-> Now]>>
                 ELSE << >>
     IN  /\ routes' = [routes EXCEPT !["live"] = out.st]
         /\ streams' = [streams EXCEPT ![s] =
                          [open |-> TRUE, call_id |-> c,
                           messages |-> <<[type |-> "connected", call_id |-> c]>> \o dump]]
         /\ result' = [op |-> "GET /api/v1/live", call_id |-> c, args |-> [stream |-> s],
                       http |-> 200, error |-> "none", ret |-> NoRet,
                       events |-> << >>, delivered |-> << >>]
         /\ UNCHANGED <<sessions, snapshots, eventListeners, requests, serviceVars>>

\* The client goes away: the abort handler removes the listener and closes
\* the stream.
RouteAbortLive(s) ==
  /\ streams[s].open
  /\ LET out == removeEventListener(routes["live"], streams[s].call_id, s)
     IN  /\ routes' = [routes EXCEPT !["live"] = out.st]
         /\ streams' = [streams EXCEPT ![s] = [open |-> FALSE, call_id |-> "", messages |-> << >>]]
         /\ result' = [op |-> "abort", call_id |-> streams[s].call_id, args |-> [stream |-> s],
                       http |-> 0, error |-> "none", ret |-> NoRet,
                       events |-> << >>, delivered |-> << >>]
         /\ UNCHANGED <<sessions, snapshots, eventListeners, requests, serviceVars>>

NextRoutes ==
  \/ \E c \in CallIds, in \in TurnInputs :
        RouteTurns("transcript") < MaxRouteTurns /\ RoutePostTranscript(c, in)
  \/ \E c \in CallIds : \E raw \in {RawTest(c), RawNoAnswers(c)} : RoutePostEmitSnapshot(raw)
  \/ \E c \in CallIds : RouteGetSnapshot(c)
  \/ \E c \in CallIds : \E r \in HandoffRequests(c) : RoutePostHandoff(r)
  \/ \E c \in CallIds : RouteGetHandoff(c)
  \/ \E s \in StreamIds, c \in ListenerKeys : RouteGetLive(s, c)
  \/ \E s \in StreamIds : RouteAbortLive(s)

SpecRoutes == Init /\ [][NextRoutes]_vars

(***************************************************************************)
(* SpecTwinMind: chunks are submitted, the queue is processed and the API  *)
(* answers 200, 429 or 500.                                                *)
(***************************************************************************)
SubmitChunk ==
  /\ Cardinality({p \in DOMAIN twinmind.promises : twinmind.promises[p].outer = 0}) < MaxSubmits
  /\ twinmind' = submitChunk(twinmind, 0)
  /\ UNCHANGED <<orchestratorVars, asr>>

\* One pass of the loop of processQueue, from its top to its next await.
ProcessQueue ==
  /\ twinmind.isProcessingQueue /\ twinmind.running = 0
  /\ twinmind.requestQueue # << >> => twinmind.minute < maxRPM
  /\ twinmind' =
       IF twinmind.requestQueue = << >> \/ twinmind.day >= maxRPD
       THEN [twinmind EXCEPT !.isProcessingQueue = FALSE]
       ELSE [twinmind EXCEPT !.requestQueue = Tail(@),
                             !.running = Head(twinmind.requestQueue),
                             !.pc = "fetch",
                             !.minute = @ + 1, !.day = @ + 1]
  /\ UNCHANGED <<orchestratorVars, asr>>

\* A minute passes: delay(waitTime) of the rate-limit wait is over.
MinutePasses ==
  /\ twinmind.minute > 0
  /\ twinmind' = [twinmind EXCEPT !.minute = 0]
  /\ UNCHANGED <<orchestratorVars, asr>>

\* The API answers the fetch of the running request.
FetchResponds(status) ==
  /\ twinmind.pc = "fetch"
  /\ twinmind' =
       IF status = 429
       THEN [twinmind EXCEPT !.pc = "delay", !.promises[twinmind.running].limited = TRUE]
       ELSE [twinmind EXCEPT
               !.promises = settle(@, twinmind.running,
                                   IF status = 200 THEN "processing" ELSE "failed"),
               !.running = 0, !.pc = "idle"]
  /\ UNCHANGED <<orchestratorVars, asr>>

\* delay(5000) is over: the request calls submitChunk again and awaits the
\* promise it returns.
DelayElapses ==
  /\ twinmind.pc = "delay"
  /\ twinmind' = [submitChunk(twinmind, twinmind.running) EXCEPT !.pc = "inner"]
  /\ UNCHANGED <<orchestratorVars, asr>>

NextTwinMind ==
  \/ SubmitChunk
  \/ ProcessQueue
  \/ MinutePasses
  \/ \E status \in {200, 429, 500} : FetchResponds(status)
  \/ DelayElapses

SpecTwinMind == Init /\ [][NextTwinMind]_vars

\* Timers fire, the API answers every fetch and the loop goes on.
LiveTwinMind ==
  /\ SpecTwinMind
  /\ WF_vars(ProcessQueue)
  /\ WF_vars(MinutePasses)
  /\ WF_vars(\E status \in {200, 429, 500} : FetchResponds(status))
  /\ WF_vars(DelayElapses)

(***************************************************************************)
(* SpecAsr: one adapter; its connections open, fail and close, its timers  *)
(* fire and its owner closes it.                                           *)
(***************************************************************************)
\* The adapter is constructed and started by its owner.
AsrStart(developerMode, throws) ==
  /\ ~asr.started
  /\ asr' = start([asr EXCEPT !.isDeveloperMode = developerMode, !.started = TRUE], throws)
  /\ UNCHANGED <<orchestratorVars, twinmind>>

\* LiveTranscriptionEvents.Open
AsrOpen(c) ==
  /\ c \in DOMAIN asr.conns /\ asr.conns[c] = "created"
  /\ asr' = [asr EXCEPT !.conns[c] = "open", !.isConnected = TRUE, !.reconnectAttempts = 0,
                        !.sinceOpen = 0, !.lastDelay = 0]
  /\ UNCHANGED <<orchestratorVars, twinmind>>

\* LiveTranscriptionEvents.Error
AsrError(c) ==
  /\ c \in DOMAIN asr.conns /\ asr.conns[c] \in {"created", "open"}
  /\ asr' = handleReconnect([asr EXCEPT !.conns[c] = "error", !.isConnected = FALSE])
  /\ UNCHANGED <<orchestratorVars, twinmind>>

\* LiveTranscriptionEvents.Close: the last event of a connection.
AsrClosed(c) ==
  /\ c \in DOMAIN asr.conns /\ asr.conns[c] # "close"
  /\ LET a == [asr EXCEPT !.conns[c] = "close", !.isConnected = FALSE]
     IN  asr' = IF a.reconnectAttempts < maxReconnectAttempts THEN handleReconnect(a) ELSE a
  /\ UNCHANGED <<orchestratorVars, twinmind>>

\* The setTimeout of a handleReconnect is over: start() is called.
AsrTimer(throws) ==
  /\ asr.timers > 0
  /\ ~throws => Len(asr.conns) < MaxConnections
  /\ asr' = start([asr EXCEPT !.timers = @ - 1], throws)
  /\ UNCHANGED <<orchestratorVars, twinmind>>

\* close(): connection.finish() asks the provider to end the stream; the
\* connection's Close event follows.
AsrClose ==
  /\ asr.started /\ ~asr.closed
  /\ asr' = IF asr.isDeveloperMode \/ asr.connection # 0
            THEN [asr EXCEPT !.isConnected = FALSE, !.closed = TRUE]
            ELSE [asr EXCEPT !.closed = TRUE]
  /\ UNCHANGED <<orchestratorVars, twinmind>>

NextAsr ==
  \/ \E developerMode, throws \in BOOLEAN : AsrStart(developerMode, throws)
  \/ \E c \in 1..MaxConnections : AsrOpen(c)
  \/ \E c \in 1..MaxConnections : AsrError(c)
  \/ \E c \in 1..MaxConnections : AsrClosed(c)
  \/ \E throws \in BOOLEAN : AsrTimer(throws)
  \/ AsrClose

SpecAsr == Init /\ [][NextAsr]_vars

(***************************************************************************)
(* SpecStore: two calls; snapshots and function calls whose arguments name *)
(* the call they are addressed to or the other one, turns that trigger the *)
(* same rule again, and a listener.                                        *)
(***************************************************************************)
\* A snapshot an extractor emits with the same reason listed twice.
RawDuplicateFlags(callId) ==
  [snap |-> Snapshot(callId, EmptyMap, <<ReasonCardiac, ReasonCardiac>>, FALSE, "t1"),
   malformed |-> {}]

StoreSnapshots(c) == {RawCompletedEmpty(c), RawDuplicateFlags(c)}

StoreCalls(c) ==
  {[name |-> "emit_snapshot", arguments |-> [snapshot |-> raw]] :
      raw \in UNION {StoreSnapshots(d) : d \in CallIds}}
  \cup {[name |-> "request_handoff", arguments |-> r] :
           r \in UNION {HandoffRequests(d) : d \in CallIds}}
  \cup {[name |-> "speak", arguments |-> [ssml |-> "hello", emotion |-> "calm"]]}

NextStore ==
  \/ \E c \in CallIds : InitializeSession(c)
  \/ \E c \in CallIds :
        /\ TotalTurns < MaxStoreTurns
        /\ ProcessTranscript(c, TurnInput("patient", TextCardiac, TRUE))
  \/ \E c \in CallIds : \E raw \in StoreSnapshots(c) : EmitSnapshot(c, raw)
  \/ \E c \in CallIds : \E fc \in StoreCalls(c) : ProcessFunctionCall(c, fc)
  \/ \E c \in CallIds : UpdateSlot(c, "full_name", "v1", 95, << >>)
  \/ \E k \in ListenerKeys :
        TotalListeners < MaxStoreListeners /\ AddEventListener(k, "l1")
  \/ \E c \in CallIds : EndSession(c)

SpecStore == Init /\ [][NextStore]_vars

(***************************************************************************)
(* Properties.  result, sessions and snapshots describe the state after    *)
(* the operation result.op; in an action formula the unprimed variables    *)
(* are the state before the operation result'.op.                          *)
(***************************************************************************)
RequiredFilled(snapshot) ==
  \A i \in 1..Len(Questions) :
     Questions[i].required =>
        /\ Questions[i].slot \in DOMAIN snapshot.answers
        /\ snapshot.answers[Questions[i].slot].status = "filled"

HasEvent(events, type) == \E i \in 1..Len(events) : events[i].type = type

\* The rule's token-sets of which every token occurs in the words.
RuleMatches(words, rule) ==
  \E s \in 1..Len(rule.tokens) :
     \A k \in 1..Len(rule.tokens[s]) : regexTest(rule.tokens[s][k], words)

\* The words of the patient turns among the last five entries of a log.
WindowWords(turns) ==
  LET from == IF Len(turns) > 5 THEN Len(turns) - 4 ELSE 1
      isPatient(t) == t.speaker = "patient"
      pt == SelectSeq(SubSeq(turns, from, Len(turns)), isPatient)
  IN  Flatten([i \in 1..Len(pt) |-> pt[i].text])

WindowRules(turns) ==
  LET words == WindowWords(turns)
  IN  {i \in 1..Len(rules) : RuleMatches(words, rules[i])}

FirstRule(turns) == CHOOSE i \in WindowRules(turns) : \A j \in WindowRules(turns) : i <= j

FinalTurnProcessed ==
  /\ result.op = "processTranscript"
  /\ result.error = "none"
  /\ result.args.turn.is_final

\* C1: in every reachable state, for every call with a session,
\* snapshot.completed is true if and only if every required catalog slot has
\* an answer whose status is 'filled'.
C1_CompletedIffRequiredFilled ==
  \A c \in DOMAIN sessions :
     sessions[c].snapshot.completed <=> RequiredFilled(sessions[c].snapshot)

\* C2 (as claimed): a processed final patient turn whose text contains every
\* token of a token-set of a rule returns request_handoff with the priority
\* of that rule, and the rule's reason is in snapshot.red_flags afterwards.
C2_HandoffWithPriorityOfMatchedRule ==
  (FinalTurnProcessed /\ result.args.turn.speaker = "patient") =>
     \A i \in 1..Len(rules) :
        RuleMatches(result.args.turn.text, rules[i]) =>
           /\ result.ret.action = "request_handoff"
           /\ result.ret.priority = rules[i].priority
           /\ Includes(sessions[result.call_id].snapshot.red_flags, rules[i].reason)

\* C2 (amended): such a turn returns request_handoff and the rule's reason is
\* in snapshot.red_flags afterwards; the reason and priority returned are
\* those of the first-declared rule that the patient text of the last five
\* turns of the log matches.
C2_HandoffWithPriorityOfFirstRule ==
  (FinalTurnProcessed /\ result.args.turn.speaker = "patient") =>
     \A i \in 1..Len(rules) :
        RuleMatches(result.args.turn.text, rules[i]) =>
           LET turns == sessions[result.call_id].turns
           IN  /\ result.ret.action = "request_handoff"
               /\ Includes(sessions[result.call_id].snapshot.red_flags, rules[i].reason)
               /\ FirstRule(turns) <= i
               /\ result.ret.reason = rules[FirstRule(turns)].reason
               /\ result.ret.priority = rules[FirstRule(turns)].priority

C2_Witness ==
  /\ FinalTurnProcessed
  /\ result.args.turn.speaker = "patient"
  /\ RuleMatches(result.args.turn.text, rules[6])
  /\ result.ret.action = "request_handoff"
  /\ result.ret.priority = "urgent"

\* The step is a processed final turn of a call with a session.
FinalTurnStep ==
  /\ result'.op = "processTranscript"
  /\ result'.error = "none"
  /\ result'.args.turn.is_final
  /\ result'.call_id \in DOMAIN sessions

\* Some rule matches in the window of the log after the step, with a reason
\* that snapshot.red_flags did not hold before the step.
NewFlagInStep ==
  \E i \in WindowRules(sessions'[result'.call_id].turns) :
     ~Includes(sessions[result'.call_id].snapshot.red_flags, rules[i].reason)

\* C3 (as claimed): on a final turn, red_flag_detected is broadcast and
\* request_handoff is returned only when the screener returns a flag whose
\* reason is not yet in snapshot.red_flags; when every returned flag is
\* already recorded the turn proceeds to question progression.
C3_HandoffOnlyOnNewFlag ==
  [][FinalTurnStep =>
       /\ (result'.ret.action = "request_handoff") <=> NewFlagInStep
       /\ HasEvent(result'.events, "red_flag_detected") <=> NewFlagInStep
       /\ ~NewFlagInStep => result'.ret.action \in {"ask_question", "speak"}]_vars

\* C3 (amended): on a final turn, red_flag_detected is broadcast and
\* request_handoff is returned exactly when the screener returns at least one
\* flag for the last five turns, recorded already or not; only the append to
\* snapshot.red_flags skips the reasons already recorded; the turn proceeds
\* to question progression exactly when the screener returns no flag.
C3_HandoffOnAnyFlag ==
  [][FinalTurnStep =>
       LET c == result'.call_id
           hits == WindowRules(sessions'[c].turns)
           old == sessions[c].snapshot.red_flags
           new == sessions'[c].snapshot.red_flags
       IN  /\ (result'.ret.action = "request_handoff") <=> (hits # {})
           /\ HasEvent(result'.events, "red_flag_detected") <=> (hits # {})
           /\ (hits = {}) <=> (result'.ret.action \in {"ask_question", "speak"})
           /\ SubSeq(new, 1, Len(old)) = old
           /\ \A i \in hits : Includes(new, rules[i].reason)
           /\ \A k \in (Len(old) + 1)..Len(new) :
                 /\ ~Includes(old, new[k])
                 /\ \A j \in (Len(old) + 1)..Len(new) : new[j] = new[k] => j = k
                 /\ \E i \in hits : rules[i].reason = new[k]]_vars

\* A final turn returned request_handoff although the only matching rule was
\* recorded by the turn before it.
C3_Witness ==
  /\ FinalTurnProcessed
  /\ result.ret.action = "request_handoff"
  /\ HasEvent(result.events, "red_flag_detected")
  /\ LET turns == sessions[result.call_id].turns
     IN  /\ Len(turns) = 2
         /\ turns[1].is_final
         /\ WindowRules(<<turns[1]>>) = {1}
         /\ WindowRules(turns) = {1}
         /\ sessions[result.call_id].snapshot.red_flags = <<ReasonCardiac>>

\* Some final turn before the last entry of the log returned request_handoff
\* (the screener's answer is a function of the log up to that turn).
HandedOffEarlier(turns) ==
  \E k \in 1..(Len(turns) - 1) :
     turns[k].is_final /\ WindowRules(SubSeq(turns, 1, k)) # {}

\* C4: once a final turn of a call has returned request_handoff, no later
\* turn of that call returns ask_question or the closing speak action.
C4_NoIntakeAfterHandoff ==
  (result.op = "processTranscript" /\ result.error = "none"
     /\ HandedOffEarlier(sessions[result.call_id].turns))
  => result.ret.action \notin {"ask_question", "speak"}

\* C5 (as claimed): when every required slot is filled, the next processed
\* final turn that matches no safety rule sets completed, broadcasts
\* intake_completed and returns speak with the closing message.
C5_CompletesWhenTurnMatchesNoRule ==
  [][(FinalTurnStep /\ RequiredFilled(sessions[result'.call_id].snapshot)
        /\ \A i \in 1..Len(rules) : ~RuleMatches(result'.args.turn.text, rules[i]))
     => /\ result'.ret.action = "speak"
        /\ result'.ret.ssml = ClosingMessage
        /\ sessions'[result'.call_id].snapshot.completed
        /\ HasEvent(result'.events, "intake_completed")]_vars

\* C5 (amended): when every required slot is filled, the next processed final
\* turn for which no safety rule matches the patient text of the last five
\* turns of the log sets completed, broadcasts intake_completed and returns
\* speak with the closing message.
C5_CompletesWhenWindowMatchesNoRule ==
  [][(FinalTurnStep /\ RequiredFilled(sessions[result'.call_id].snapshot)
        /\ WindowRules(sessions'[result'.call_id].turns) = {})
     => /\ result'.ret.action = "speak"
        /\ result'.ret.ssml = ClosingMessage
        /\ sessions'[result'.call_id].snapshot.completed
        /\ snapshots'[result'.call_id].completed
        /\ HasEvent(result'.events, "intake_completed")]_vars

C5_Witness ==
  /\ FinalTurnProcessed
  /\ result.ret.action = "speak"
  /\ sessions[result.call_id].snapshot.completed
  /\ RequiredFilled(sessions[result.call_id].snapshot)
  /\ "allergies" \notin DOMAIN sessions[result.call_id].snapshot.answers
  /\ \A q \in RequiredSlots : sessions[result.call_id].snapshot.answers[q].confidence >= 60

\* C6: every final turn submitted for a call with a session is processed
\* without an error, is the last entry of the call's turn log afterwards and
\* has exactly one of the actions none, ask_question, request_handoff, speak
\* returned for it.
C6_FinalTurnNeverDropped ==
  [][(result'.op = "processTranscript" /\ result'.args.turn.is_final
        /\ result'.call_id \in DOMAIN sessions)
     => /\ result'.error = "none"
        /\ result'.ret.action \in {"none", "ask_question", "request_handoff", "speak"}
        /\ result'.call_id \in DOMAIN sessions'
        /\ sessions'[result'.call_id].turns =
             Append(sessions[result'.call_id].turns, result'.args.turn)]_vars

C6_Witness ==
  /\ FinalTurnProcessed
  /\ result.ret.action = "ask_question"
  /\ Len(sessions[result.call_id].turns) >= 2
  /\ sessions[result.call_id].turns[Len(sessions[result.call_id].turns)] = result.args.turn

\* The step is an emit_snapshot: a direct call, the route, or the dispatch of
\* the function call for a call with a session.
EmitStep ==
  \/ result'.op \in {"emitSnapshot", "POST /api/v1/emit_snapshot"}
  \/ /\ result'.op = "processFunctionCall"
     /\ result'.args.functionCall.name = "emit_snapshot"
     /\ result'.call_id \in DOMAIN sessions

EmittedRaw(r) ==
  IF r.op = "processFunctionCall" THEN r.args.functionCall.arguments.snapshot
  ELSE r.args.snapshot

\* The raw snapshot has a structural violation.
Malformed(raw) ==
  \/ raw.snap.call_id = ""
  \/ raw.snap.timestamp = ""
  \/ raw.malformed # {}
  \/ \E slot \in DOMAIN raw.snap.answers :
        \/ raw.snap.answers[slot].status \notin {"filled", "unknown", "not_applicable"}
        \/ raw.snap.answers[slot].confidence < 0
        \/ raw.snap.answers[slot].confidence > 100

\* C7: emit_snapshot with a snapshot that fails validation is rejected with a
\* validation error, broadcasts no event and leaves the stored snapshots,
\* the sessions and the subscriptions of every call as they were.
C7_InvalidSnapshotRejected ==
  [][(EmitStep /\ Malformed(EmittedRaw(result')))
     => /\ result'.error = "VALIDATION_ERROR"
        /\ result'.events = << >>
        /\ UNCHANGED <<sessions, snapshots, eventListeners>>]_vars

\* C8: emit_snapshot with a valid snapshot succeeds, stores the snapshot for
\* the call (getSnapshot returns it, the session state holds it, the turn
\* log is kept) and broadcasts snapshot_updated carrying it.
C8_ValidSnapshotStored ==
  [][(EmitStep /\ ~Malformed(EmittedRaw(result')))
     => LET c == result'.call_id
            posted == EmittedRaw(result').snap
        IN  /\ result'.error = "none"
            /\ c \in DOMAIN snapshots'
            /\ snapshots'[c] = posted
            /\ DOMAIN sessions' = DOMAIN sessions
            /\ c \in DOMAIN sessions =>
                  /\ sessions'[c].snapshot = posted
                  /\ sessions'[c].turns = sessions[c].turns
            /\ \E i \in 1..Len(result'.events) :
                  /\ result'.events[i].type = "snapshot_updated"
                  /\ result'.events[i].call_id = c
                  /\ result'.events[i].data.snapshot = posted]_vars

C8_Witness ==
  /\ result.op = "POST /api/v1/emit_snapshot"
  /\ result.http = 200
  /\ result.call_id \in DOMAIN sessions
  /\ sessions[result.call_id].turns # << >>
  /\ sessions[result.call_id].snapshot = RawTest(result.call_id).snap
  /\ snapshots[result.call_id] = RawTest(result.call_id).snap

\* C9: every orchestrator operation addressed to a call id that has no
\* session fails with SESSION_NOT_FOUND, changes no state and broadcasts no
\* event.
C9_UnknownCallRejected ==
  [][(/\ result'.op \in {"processTranscript", "processFunctionCall", "updateSlot",
                         "emitSnapshot", "requestHandoff", "endSession"}
      /\ result'.call_id \notin DOMAIN sessions)
     => /\ result'.error = "SESSION_NOT_FOUND"
        /\ result'.events = << >>
        /\ UNCHANGED <<sessions, snapshots, eventListeners>>]_vars

\* The listeners invoked for the events of one type, in order.
InvokedFor(delivered, type) ==
  LET ofType(d) == d.type = type
      ds == SelectSeq(delivered, ofType)
  IN  [i \in 1..Len(ds) |-> ds[i].listener]

Registered(listeners, key) == IF key \in DOMAIN listeners THEN listeners[key] ELSE << >>

\* C10: when a listener throws during the delivery of an event, every per-call
\* and wildcard listener registered for the event is still invoked for it,
\* no error reaches the caller of the operation and the operation's state
\* change is applied.
C10_ThrowingListenerIsolated ==
  [][(\E i \in 1..Len(result'.delivered) : result'.delivered[i].caught)
     => LET c == result'.call_id
        IN  /\ result'.error = "none"
            /\ \A e \in 1..Len(result'.events) :
                  InvokedFor(result'.delivered, result'.events[e].type) =
                     Registered(eventListeners, result'.events[e].call_id)
                     \o Registered(eventListeners, WildcardId)
            /\ result'.op = "initializeSession" =>
                  c \in DOMAIN sessions' /\ sessions'[c].turns = << >>
            /\ result'.op = "processTranscript" =>
                  sessions'[c].turns = Append(sessions[c].turns, result'.args.turn)
            /\ result'.op = "updateSlot" =>
                  "full_name" \in DOMAIN sessions'[c].snapshot.answers
            /\ result'.op = "endSession" => c \notin DOMAIN eventListeners']_vars

\* A per-call listener threw first; a second per-call listener and a wildcard
\* listener were invoked after it for the same event.
C10_Witness ==
  /\ result.op = "processTranscript"
  /\ result.error = "none"
  /\ Len(result.delivered) >= 3
  /\ result.delivered[1].caught
  /\ result.delivered[1].key = result.call_id
  /\ result.delivered[2].listener = "l1"
  /\ result.delivered[2].key = result.call_id
  /\ result.delivered[3].key = WildcardId
  /\ result.delivered[3].type = result.delivered[1].type

\* The listeners invoked under the key of call c for the events of one type.
PerCallInvoked(delivered, type, c) ==
  LET sel(d) == d.type = type /\ d.key = c
      ds == SelectSeq(delivered, sel)
  IN  [i \in 1..Len(ds) |-> ds[i].listener]

\* The types of the events a listener was invoked for under the key of call c.
SeenBy(delivered, c, l) ==
  LET sel(d) == d.listener = l /\ d.key = c
      ds == SelectSeq(delivered, sel)
  IN  [i \in 1..Len(ds) |-> ds[i].type]

EventTypes(events, c) ==
  LET sel(e) == e.call_id = c
      es == SelectSeq(events, sel)
  IN  [i \in 1..Len(es) |-> es[i].type]

Count(s, x) == Cardinality({i \in 1..Len(s) : s[i] = x})

Without(s, x) == LET keep(y) == y # x IN SelectSeq(s, keep)

\* C11: every event of a call is delivered to the listeners registered under
\* its call id, in registration order, so two listeners registered (once
\* each) see the same sequence of events; removing one of them takes only
\* that listener out of the list and keeps the others in their order, so the
\* other still receives every subsequent event.
C11_RemovalStopsOnlyThatListener ==
  [][/\ \A c \in CallIds :
          /\ \A e \in 1..Len(result'.events) :
                result'.events[e].call_id = c =>
                   PerCallInvoked(result'.delivered, result'.events[e].type, c)
                      = Registered(eventListeners, c)
          /\ \A l \in ListenerIds :
                Count(Registered(eventListeners, c), l) = 1 =>
                   SeenBy(result'.delivered, c, l) = EventTypes(result'.events, c)
     /\ (result'.op = "removeEventListener" /\ result'.call_id \in CallIds) =>
          LET c == result'.call_id
              l == result'.args.listener
              before == Registered(eventListeners, c)
              after == Registered(eventListeners', c)
          IN  /\ Without(after, l) = Without(before, l)
              /\ Count(before, l) = 1 => Count(after, l) = 0
              /\ Count(before, l) = 0 => after = before
              /\ \A k \in ListenerKeys \ {c} :
                    Registered(eventListeners', k) = Registered(eventListeners, k)]_vars

\* The first of two listeners of a call was removed; the second stays.
C11_Witness ==
  /\ result.op = "removeEventListener"
  /\ result.call_id \in CallIds
  /\ result.args.listener = "l1"
  /\ result.ret.index = 1
  /\ eventListeners[result.call_id] = <<"lthrow">>

\* C12: endSession of a call with a session delivers session_ended, carrying
\* the call's snapshot, to every listener registered under the call id (and
\* to the wildcard listeners) and then removes the subscriptions of that
\* call id only; session_ended is the last event delivered under that key,
\* and as long as nothing is registered under the call id again the events
\* of the call are emitted without an error to no per-call listener and to
\* every wildcard listener.
C12_SessionEndedThenUnsubscribed ==
  [][/\ (result'.op = "endSession" /\ result'.call_id \in DOMAIN sessions) =>
          LET c == result'.call_id
          IN  /\ result'.error = "none"
              /\ Len(result'.events) = 1
              /\ result'.events[1].type = "session_ended"
              /\ result'.events[1].call_id = c
              /\ result'.events[1].data.snapshot = sessions[c].snapshot
              /\ PerCallInvoked(result'.delivered, "session_ended", c)
                    = Registered(eventListeners, c)
              /\ PerCallInvoked(result'.delivered, "session_ended", WildcardId)
                    = Registered(eventListeners, WildcardId)
              /\ Len(result'.delivered)
                    = Len(Registered(eventListeners, c))
                      + Len(Registered(eventListeners, WildcardId))
              /\ c \notin DOMAIN eventListeners'
              /\ \A k \in ListenerKeys \ {c} :
                    /\ k \in DOMAIN eventListeners' <=> k \in DOMAIN eventListeners
                    /\ Registered(eventListeners', k) = Registered(eventListeners, k)
     /\ \A e \in 1..Len(result'.events) :
          result'.events[e].call_id \notin DOMAIN eventListeners =>
             /\ result'.error = "none"
             /\ PerCallInvoked(result'.delivered, result'.events[e].type,
                               result'.events[e].call_id) = << >>
             /\ PerCallInvoked(result'.delivered, result'.events[e].type, WildcardId)
                   = Registered(eventListeners, WildcardId)]_vars

\* session_ended went to two listeners of the call and to a wildcard
\* listener; afterwards only the wildcard subscription is left.
C12_Witness ==
  /\ result.op = "endSession"
  /\ result.call_id \in DOMAIN sessions
  /\ Len(result.delivered) = 3
  /\ result.delivered[1].key = result.call_id
  /\ result.delivered[2].key = result.call_id
  /\ result.delivered[3].key = WildcardId
  /\ \A i \in 1..3 : result.delivered[i].type = "session_ended"
  /\ DOMAIN eventListeners = {WildcardId}
  /\ Len(eventListeners[WildcardId]) = 1

\* C13: after endSession(c) the call has no session any more (so that every
\* later turn, slot update or function call for c fails with
\* SESSION_NOT_FOUND).
C13_SessionDiscardedAtEnd ==
  result.op = "endSession" => result.call_id \notin DOMAIN sessions

\* The catalog positions whose slot has no answer of status 'filled'.
OpenIdx(snapshot) ==
  {i \in 1..Len(Questions) :
     ~(/\ Questions[i].slot \in DOMAIN snapshot.answers
       /\ snapshot.answers[Questions[i].slot].status = "filled")}

\* q is the first question of the catalog among the positions idx, or null
\* when idx is empty.
IsFirstOf(q, idx) ==
  IF idx = {} THEN q = NoQuestion
  ELSE \E i \in idx : q = Questions[i] /\ \A j \in idx : i <= j

AskedQuestion ==
  FinalTurnProcessed /\ result.ret.action = "ask_question"

\* C14 (as claimed): next_question returns the first question of the catalog,
\* in catalog order, whose slot is not 'filled', whatever its required flag,
\* and null exactly when no catalog question has an unfilled slot.
C14_FirstUnfilledQuestion ==
  \A c \in DOMAIN sessions :
     /\ IsFirstOf(getNextQuestion(sessions[c]), OpenIdx(sessions[c].snapshot))
     /\ (AskedQuestion /\ result.call_id = c) =>
           IsFirstOf(result.ret.question, OpenIdx(sessions[c].snapshot))

\* C14 (amended): next_question returns the first required question of the
\* catalog, in catalog order, whose slot is not 'filled', and null exactly
\* when every required question's slot is filled; questions that are not
\* required are never returned.
C14_FirstUnfilledRequiredQuestion ==
  \A c \in DOMAIN sessions :
     /\ IsFirstOf(getNextQuestion(sessions[c]),
                  OpenIdx(sessions[c].snapshot) \cap RequiredIdx)
     /\ (AskedQuestion /\ result.call_id = c) =>
           IsFirstOf(result.ret.question, OpenIdx(sessions[c].snapshot) \cap RequiredIdx)

\* The first question is answered, the optional second one is not, and the
\* third one is asked.
C14_Witness ==
  /\ AskedQuestion
  /\ OpenIdx(sessions[result.call_id].snapshot) = {2, 3}
  /\ result.ret.question = Questions[3]
  /\ ~Questions[2].required

FilledSlots(snapshot) ==
  {k \in DOMAIN snapshot.answers : snapshot.answers[k].status = "filled"}

\* C15: a slot that is 'filled' in a state of a call is not the slot of the
\* question next_question returns in the next state of that call (and so in
\* no later state), whatever value is applied or snapshot emitted by the
\* step in between (a new session start for the call id aside), and no final
\* turn returns ask_question with the question of a slot that was filled.
C15_FilledSlotNeverReasked ==
  [][\A c \in DOMAIN sessions :
        (c \in DOMAIN sessions' /\ result'.op # "initializeSession") =>
           /\ getNextQuestion(sessions'[c]).slot \notin FilledSlots(sessions[c].snapshot)
           /\ (result'.op = "processTranscript" /\ result'.call_id = c
                  /\ result'.ret.action = "ask_question") =>
                 result'.ret.question.slot \notin FilledSlots(sessions[c].snapshot)]_vars

\* C16: the question a final turn asks is the one next_question gives for the
\* state before the turn and again for the state after it (asking changes
\* neither the snapshot nor, beyond the append of the turn itself, the turn
\* log), and a second final turn with no mutation in between is asked the
\* same question with the same prompt.
C16_NextQuestionReadOnly ==
  [][(FinalTurnStep /\ result'.ret.action = "ask_question") =>
       LET c == result'.call_id
       IN  /\ sessions'[c].snapshot = sessions[c].snapshot
           /\ snapshots'[c] = snapshots[c]
           /\ sessions'[c].turns = Append(sessions[c].turns, result'.args.turn)
           /\ result'.ret.question = getNextQuestion(sessions[c])
           /\ result'.ret.question = getNextQuestion(sessions'[c])
           /\ (result.op = "processTranscript" /\ result.call_id = c
                  /\ result.ret.action = "ask_question") =>
                 /\ result'.ret.question = result.ret.question
                 /\ result'.ret.prompt = result.ret.prompt]_vars

\* The second final turn of a log was asked the third question.
C16_Witness ==
  /\ AskedQuestion
  /\ result.ret.question = Questions[3]
  /\ Len(sessions[result.call_id].turns) = 2
  /\ result.args.turn.turn_id = 2
  /\ result.ret.prompt.context = << <<"full_name", "v2">> >>

\* The step is an updateSlot of a call with a session.
UpdateStep ==
  result'.op = "updateSlot" /\ result'.call_id \in DOMAIN sessions

\* C17: updateSlot stores the slot with status 'filled' exactly when the
\* confidence is at least 0.6 and with 'unknown' otherwise; a confidence
\* below 0.6 applied to an unfilled required slot leaves next_question
\* returning the same question as before.
C17_FilledIffConfidentEnough ==
  [][UpdateStep =>
       LET c == result'.call_id
           slot == result'.args.slot
           confidence == result'.args.confidence
           stored == sessions'[c].snapshot.answers[slot]
       IN  /\ result'.error = "none"
           /\ stored.status \in {"filled", "unknown"}
           /\ stored.status = "filled" <=> confidence >= 60
           /\ (/\ confidence < 60
               /\ slot \in RequiredSlots
               /\ slot \notin FilledSlots(sessions[c].snapshot)) =>
                 getNextQuestion(sessions'[c]) = getNextQuestion(sessions[c])]_vars

\* A confidence of 0.59 on the unfilled first slot: the slot is 'unknown' and
\* its question is still the next one.
C17_Witness ==
  /\ result.op = "updateSlot"
  /\ result.error = "none"
  /\ result.args.slot = "full_name"
  /\ result.args.confidence = 59
  /\ sessions[result.call_id].snapshot.answers["full_name"].status = "unknown"
  /\ getNextQuestion(sessions[result.call_id]) = Questions[1]

\* C18: updateSlot overwrites whatever answer the slot held: afterwards the
\* slot holds exactly the new value, confidence and evidence ids with the
\* status derived from the new confidence, completed is recomputed from the
\* new answers, no other slot's answer changes, and the stored snapshot, the
\* session's snapshot and the returned one are the same.
C18_UpdateOverwrites ==
  [][UpdateStep =>
       LET c == result'.call_id
           slot == result'.args.slot
           old == sessions[c].snapshot
           new == sessions'[c].snapshot
       IN  /\ DOMAIN new.answers = DOMAIN old.answers \cup {slot}
           /\ new.answers[slot] =
                 [value |-> result'.args.value,
                  confidence |-> result'.args.confidence,
                  status |-> IF result'.args.confidence >= 60 THEN "filled" ELSE "unknown",
                  evidence_turn_ids |-> result'.args.evidence]
           /\ \A k \in DOMAIN old.answers \ {slot} : new.answers[k] = old.answers[k]
           /\ new.completed <=> RequiredFilled(new)
           /\ slot \in PatientKeys => new.patient[slot] = result'.args.value
           /\ new.red_flags = old.red_flags
           /\ sessions'[c].turns = sessions[c].turns
           /\ snapshots'[c] = new
           /\ result'.ret.snapshot = new]_vars

\* A value of confidence 0.59 was applied to the first slot while the third
\* holds an answer of confidence 0.95: the first is 'unknown', the third is
\* untouched and completed is false.
C18_Witness ==
  /\ result.op = "updateSlot"
  /\ result.error = "none"
  /\ result.args.slot = "full_name"
  /\ result.args.confidence = 59
  /\ LET snap == sessions[result.call_id].snapshot
     IN  /\ DOMAIN snap.answers = {"full_name", "chief_complaint"}
         /\ snap.answers["full_name"] = Answer("v1", 59, "unknown", << >>)
         /\ snap.answers["chief_complaint"] = Answer("v2", 95, "filled", <<1, 2>>)
         /\ ~snap.completed

\* C19: addTranscriptTurn with a turn whose call_id differs from the call id
\* of the state it is given fails with INVALID_CALL and leaves the turn log
\* as it was.
C19_MismatchedTurnRejected ==
  [][(/\ result'.op = "addTranscriptTurn"
      /\ result'.args.turn.call_id # sessions[result'.call_id].call_id)
     => /\ result'.error = "INVALID_CALL"
        /\ sessions'[result'.call_id].turns = sessions[result'.call_id].turns]_vars

\* C20: in every reachable state, every evidence turn id stored in an answer
\* of a call's snapshot is the turn id of an entry of that call's turn log.
C20_EvidenceInTurnLog ==
  \A c \in DOMAIN sessions :
     \A k \in DOMAIN sessions[c].snapshot.answers :
        LET ids == sessions[c].snapshot.answers[k].evidence_turn_ids
        IN  \A i \in 1..Len(ids) :
               \E t \in 1..Len(sessions[c].turns) : sessions[c].turns[t].turn_id = ids[i]

IsPrefix(s, t) == Len(s) <= Len(t) /\ SubSeq(t, 1, Len(s)) = s

\* C21: the turn log of a started call is append-only: every processed turn
\* appends exactly one entry at the end, and no operation (a repeated session
\* start for the call id, emitSnapshot and updateSlot included) removes,
\* reorders or changes an entry of the log.
C21_TurnLogAppendOnly ==
  [][\A c \in DOMAIN sessions :
        /\ c \in DOMAIN sessions'
        /\ IsPrefix(sessions[c].turns, sessions'[c].turns)
        /\ (result'.op = "processTranscript" /\ result'.call_id = c) =>
              sessions'[c].turns = Append(sessions[c].turns, result'.args.turn)
        /\ ~(result'.op \in {"processTranscript", "POST /api/v1/transcript"}
               /\ result'.call_id = c) =>
              sessions'[c].turns = sessions[c].turns]_vars

\* The last operation was handed a raw snapshot.
EmittedSnapshot ==
  \/ result.op \in {"emitSnapshot", "POST /api/v1/emit_snapshot"}
  \/ result.op = "processFunctionCall" /\ result.args.functionCall.name = "emit_snapshot"

B2N(b) == IF b THEN 1 ELSE 0

\* The number of structural violations of a raw snapshot.
ViolationCount(raw) ==
  LET perAnswer ==
        [slot \in DOMAIN raw.snap.answers |->
           B2N(raw.snap.answers[slot].status \notin {"filled", "unknown", "not_applicable"})
           + B2N(\/ <<"confidence", slot>> \in raw.malformed
                 \/ raw.snap.answers[slot].confidence < 0
                 \/ raw.snap.answers[slot].confidence > 100)
           + B2N(<<"evidence_turn_ids", slot>> \in raw.malformed)]
      RECURSIVE Sum(_)
      Sum(S) == IF S = {} THEN 0
                ELSE LET k == CHOOSE x \in S : TRUE IN perAnswer[k] + Sum(S \ {k})
  IN  B2N(raw.snap.call_id = "")
      + B2N(<<"answers", "undefined">> \in raw.malformed
            \/ <<"answers", "null">> \in raw.malformed)
      + B2N(<<"red_flags", "">> \in raw.malformed)
      + B2N(<<"completed", "">> \in raw.malformed)
      + B2N(raw.snap.timestamp = "")
      + Sum(DOMAIN raw.snap.answers)

\* C22: for every snapshot handed to emit_snapshot, one whose answers field
\* is missing or null included, validateSnapshot returns without throwing,
\* its error list has one entry for every structural violation present, and
\* valid is true exactly when the list is empty.
C22_ValidateCollectsEveryViolation ==
  EmittedSnapshot =>
     LET validation == validateSnapshot(EmittedRaw(result))
     IN  /\ ~validation.threw
         /\ Len(validation.errors) = ViolationCount(EmittedRaw(result))
         /\ validation.valid <=> validation.errors = << >>

\* The words of the patient turns of a sequence of turns.
PatientWords(turns) ==
  LET isPatient(t) == t.speaker = "patient"
      pt == SelectSeq(turns, isPatient)
  IN  Flatten([i \in 1..Len(pt) |-> pt[i].text])

\* The positions of the rules in the order of declaration, as a sequence.
RECURSIVE Ascending(_)
Ascending(S) ==
  IF S = {} THEN << >>
  ELSE LET m == CHOOSE x \in S : \A y \in S : x <= y IN <<m>> \o Ascending(S \ {m})

ScreensExactly(turns) ==
  LET flags == detectRedFlags(turns)
      words == PatientWords(turns)
      hits == Ascending({i \in 1..Len(rules) : RuleMatches(words, rules[i])})
      isPatient(t) == t.speaker = "patient"
  IN  /\ Len(flags) = Len(hits)
      /\ \A k \in 1..Len(flags) :
            /\ flags[k].reason = rules[hits[k]].reason
            /\ flags[k].priority = rules[hits[k]].priority
            /\ flags[k].evidence # << >>
      /\ flags = detectRedFlags(SelectSeq(turns, isPatient))

\* C23: for the turn log of a call and for the window of its last five
\* entries, detectRedFlags returns exactly one flag for each rule of which
\* at least one token-set has all its tokens in the concatenated text of the
\* patient turns, in the order the rules are declared, and no other flag;
\* the turns of the agent change nothing in the result.
C23_OneFlagPerMatchingRule ==
  \A c \in DOMAIN sessions :
     /\ ScreensExactly(sessions[c].turns)
     /\ ScreensExactly(sliceLast(sessions[c].turns, windowSize))

\* The patient fainted and then described the cardiac symptoms: two flags,
\* the cardiac one first; and an agent turn with the cardiac sentence before
\* a patient turn gives no cardiac flag.
C23_Witness ==
  \E c \in DOMAIN sessions :
     LET turns == sessions[c].turns
     IN  /\ Len(turns) >= 2
         /\ turns[1].speaker = "patient" /\ turns[1].text = TextFainted
         /\ turns[2].speaker = "patient" /\ turns[2].text = TextCardiac
         /\ Len(detectRedFlags(turns)) = 2
         /\ detectRedFlags(turns)[1].reason = ReasonCardiac
         /\ detectRedFlags(turns)[2].reason = ReasonLoc
         /\ detectRedFlags(<<[turns[2] EXCEPT !.speaker = "agent"], turns[1]>>)
               = detectRedFlags(<<turns[1]>>)

\* The reasons of a sequence of rule positions that a list does not hold.
RECURSIVE NewReasons(_, _)
NewReasons(list, idx) ==
  IF idx = << >> THEN << >>
  ELSE IF Includes(list, rules[Head(idx)].reason) THEN NewReasons(list, Tail(idx))
  ELSE <<rules[Head(idx)].reason>> \o NewReasons(list, Tail(idx))

\* C24: when the screening of a final turn returns flags of several rules,
\* the request_handoff returned carries the reason and the priority of the
\* first-declared of them, whatever the priorities of the others, and
\* snapshot.red_flags is extended, in declaration order, by the reasons of
\* all of them that it did not hold yet.
C24_FirstDeclaredRuleWins ==
  [][(FinalTurnStep /\ Cardinality(WindowRules(sessions'[result'.call_id].turns)) >= 2)
     => LET c == result'.call_id
            hits == WindowRules(sessions'[c].turns)
            first == CHOOSE i \in hits : \A j \in hits : i <= j
        IN  /\ result'.ret.action = "request_handoff"
            /\ result'.ret.call_id = c
            /\ result'.ret.reason = rules[first].reason
            /\ result'.ret.priority = rules[first].priority
            /\ sessions'[c].snapshot.red_flags =
                  sessions[c].snapshot.red_flags
                  \o NewReasons(sessions[c].snapshot.red_flags, Ascending(hits))
            /\ \A i \in hits : Includes(sessions'[c].snapshot.red_flags, rules[i].reason)]_vars

\* One final turn matched the two rules of priority high: the handoff carries
\* the reason of the one declared first and both reasons were appended.
C24_Witness ==
  /\ FinalTurnProcessed
  /\ result.args.turn.text = TextPainFainted
  /\ Len(sessions[result.call_id].turns) = 1
  /\ result.ret.action = "request_handoff"
  /\ result.ret.reason = ReasonLoc
  /\ result.ret.priority = "high"
  /\ sessions[result.call_id].snapshot.red_flags = <<ReasonLoc, ReasonPain>>

\* The last five entries of a log.
LastFive(turns) ==
  IF Len(turns) <= 5 THEN turns ELSE SubSeq(turns, Len(turns) - 4, Len(turns))

MatchingRules(turns) ==
  LET words == PatientWords(turns)
  IN  {i \in 1..Len(rules) : RuleMatches(words, rules[i])}

FlagsOf(events) ==
  LET isFlag(e) == e.type = "red_flag_detected"
      es == SelectSeq(events, isFlag)
  IN  IF es = << >> THEN << >> ELSE es[1].data.flags

\* C25: the screening of a final turn reads the last five entries of the
\* turn log and nothing older: the flags broadcast are those of the rules
\* that the patient text of these five entries matches (the tokens may lie
\* in different turns of the five), a handoff is returned exactly when there
\* is one, and the reason of a rule that only older text completes is not
\* added to snapshot.red_flags.
C25_ScreeningWindowOfFive ==
  [][FinalTurnStep =>
       LET c == result'.call_id
           turns == sessions'[c].turns
           inWindow == MatchingRules(LastFive(turns))
           flags == FlagsOf(result'.events)
       IN  /\ (result'.ret.action = "request_handoff") <=> (inWindow # {})
           /\ Len(flags) = Cardinality(inWindow)
           /\ \A k \in 1..Len(flags) : flags[k].reason = rules[Ascending(inWindow)[k]].reason
           /\ \A i \in MatchingRules(turns) \ inWindow :
                 Includes(sessions'[c].snapshot.red_flags, rules[i].reason)
                   => Includes(sessions[c].snapshot.red_flags, rules[i].reason)]_vars

\* 'chest pain' is in the first entry of a log of six and 'shortness of
\* breath' in the sixth: the cardiac rule matches the log, not the window,
\* and the sixth turn is asked a question.
C25_Witness ==
  /\ FinalTurnProcessed
  /\ result.args.turn.text = TextBreath
  /\ LET turns == sessions[result.call_id].turns
     IN  /\ Len(turns) = 6
         /\ turns[1].text = TextChest
         /\ MatchingRules(turns) = {1}
         /\ MatchingRules(LastFive(turns)) = {}
  /\ result.ret.action = "ask_question"
  /\ sessions[result.call_id].snapshot.red_flags = << >>

\* 'chest pain' in a partial turn and 'shortness of breath' in the final turn
\* after it: the cardiac rule is flagged.
C25_WitnessSpread ==
  /\ FinalTurnProcessed
  /\ result.args.turn.text = TextBreath
  /\ LET turns == sessions[result.call_id].turns
     IN  /\ Len(turns) = 2
         /\ turns[1].text = TextChest
         /\ ~turns[1].is_final
  /\ result.ret.action = "request_handoff"
  /\ result.ret.reason = ReasonCardiac

\* C26: a non-final turn of a call with a session is appended to the log,
\* is broadcast as a 'partial' transcript event (never as 'final'), returns
\* the action none and leaves the snapshot of the call (answers, red_flags,
\* completed) as it was, in the session and in the store, whatever its text;
\* no red_flag_detected or intake_completed event is broadcast for it.
C26_PartialTurnDisplayOnly ==
  [][(/\ result'.op = "processTranscript"
      /\ ~result'.args.turn.is_final
      /\ result'.call_id \in DOMAIN sessions)
     => LET c == result'.call_id
        IN  /\ result'.error = "none"
            /\ result'.ret = [action |-> "none"]
            /\ sessions'[c].turns = Append(sessions[c].turns, result'.args.turn)
            /\ sessions'[c].snapshot = sessions[c].snapshot
            /\ snapshots' = snapshots
            /\ HasEvent(result'.events, "partial")
            /\ \A e \in 1..Len(result'.events) :
                  /\ result'.events[e].type \in {"partial", "transcript_received"}
                  /\ result'.events[e].call_id = c
                  /\ result'.events[e].data.turn = result'.args.turn]_vars

\* The partial turn 'i fainted' matches a rule by itself and changes nothing
\* but the log.
C26_Witness ==
  /\ result.op = "processTranscript"
  /\ result.error = "none"
  /\ ~result.args.turn.is_final
  /\ result.args.turn.text = TextFainted
  /\ MatchingRules(<<result.args.turn>>) = {6}
  /\ result.ret.action = "none"
  /\ sessions[result.call_id].snapshot.red_flags = << >>
  /\ sessions[result.call_id].turns = <<result.args.turn>>

\* The step is a notification: the dispatch of a request_handoff or speak
\* function call for a call with a session, or requestHandoff itself.
NotifyStep ==
  \/ /\ result'.op = "processFunctionCall"
     /\ result'.args.functionCall.name \in {"request_handoff", "speak"}
     /\ result'.call_id \in DOMAIN sessions
  \/ result'.op = "requestHandoff"

\* C27: request_handoff and speak are pure notifications: each broadcasts
\* exactly one event (handoff_requested, speak_request) carrying its
\* arguments, returns without an error and changes neither a snapshot, nor a
\* turn log, nor the sessions, nor the subscriptions.
C27_NotificationsChangeNothing ==
  [][NotifyStep =>
       LET speak == /\ result'.op = "processFunctionCall"
                    /\ result'.args.functionCall.name = "speak"
           args == IF result'.op = "requestHandoff" THEN result'.args.request
                   ELSE result'.args.functionCall.arguments
       IN  /\ result'.error = "none"
           /\ Len(result'.events) = 1
           /\ result'.events[1].type = IF speak THEN "speak_request" ELSE "handoff_requested"
           /\ result'.events[1].call_id = result'.call_id
           /\ result'.events[1].data = args
           /\ UNCHANGED <<sessions, snapshots, eventListeners>>]_vars

\* A request_handoff was dispatched for a call with a listener: one
\* handoff_requested event was delivered and the session is still there.
C27_Witness ==
  /\ result.op = "processFunctionCall"
  /\ result.args.functionCall.name = "request_handoff"
  /\ result.error = "none"
  /\ Len(result.events) = 1
  /\ result.events[1].type = "handoff_requested"
  /\ Len(result.delivered) = 2
  /\ result.call_id \in CallIds
  /\ result.call_id \in DOMAIN sessions
  /\ result.call_id \in DOMAIN eventListeners
  /\ Len(eventListeners[result.call_id]) = 2

\* The invocations made for the events of one type, in order.
RecordsFor(delivered, type) ==
  LET ofType(d) == d.type = type IN SelectSeq(delivered, ofType)

\* C28: every event of every call is delivered to every listener registered
\* under the wildcard id; for each event the listeners registered under the
\* event's call id are invoked first, in registration order, and then the
\* wildcard listeners, in registration order.
C28_PerCallThenWildcard ==
  [][\A e \in 1..Len(result'.events) :
        LET c == result'.events[e].call_id
            own == Registered(eventListeners, c)
            glob == Registered(eventListeners, WildcardId)
            recs == RecordsFor(result'.delivered, result'.events[e].type)
        IN  /\ Len(recs) = Len(own) + Len(glob)
            /\ \A i \in 1..Len(own) :
                  recs[i].listener = own[i] /\ recs[i].key = c /\ recs[i].call_id = c
            /\ \A i \in 1..Len(glob) :
                  /\ recs[Len(own) + i].listener = glob[i]
                  /\ recs[Len(own) + i].key = WildcardId
                  /\ recs[Len(own) + i].call_id = c]_vars

\* An event of a call went to the call's listener and then to the two
\* wildcard listeners in the order they were registered.
C28_Witness ==
  /\ Len(result.events) = 1
  /\ result.call_id \in CallIds
  /\ WildcardId \in DOMAIN eventListeners
  /\ eventListeners[WildcardId] = <<"lthrow", "l1">>
  /\ Len(result.delivered) = 3
  /\ result.delivered[1].key = result.call_id
  /\ result.delivered[2].key = WildcardId /\ result.delivered[2].listener = "lthrow"
  /\ result.delivered[3].key = WildcardId /\ result.delivered[3].listener = "l1"

\* C29: delivery is at-most-once: for every event emitted, whatever call id
\* it carries (the id '*' included), and for every key, the listeners
\* registered under the key are invoked for the event no more often than
\* they are registered under it.
C29_AtMostOnce ==
  [][\A e \in 1..Len(result'.events) :
        LET recs == RecordsFor(result'.delivered, result'.events[e].type)
        IN  \A k \in ListenerKeys, l \in ListenerIds :
               Cardinality({i \in 1..Len(recs) : recs[i].key = k /\ recs[i].listener = l})
                 <= Count(Registered(eventListeners, k), l)]_vars

\* The event types of the dashboard contract.
ContractEventTypes ==
  {"session_started", "transcript_received", "partial", "final",
   "snapshot_updated", "red_flag_detected", "handoff_requested",
   "slot_updated", "speak_request", "intake_completed", "session_ended"}

\* C30: every event an operation broadcasts is a record of exactly the
\* fields type, call_id, timestamp and data, and its type is one of the
\* eleven contract types; no operation emits an event of another type.
C30_EventsOfContractTypes ==
  \A e \in 1..Len(result.events) :
     /\ DOMAIN result.events[e] = {"type", "call_id", "timestamp", "data"}
     /\ result.events[e].type \in ContractEventTypes

\* The entries of a list are pairwise different.
Distinct(list) == \A i, j \in 1..Len(list) : list[i] = list[j] => i = j

\* C31: in every reachable state the red_flags list of the snapshot of a
\* call, in the snapshot store and in the session, holds no reason twice,
\* whatever turns were processed and whatever snapshots were emitted.
C31_RedFlagsDistinct ==
  /\ \A c \in DOMAIN snapshots : Distinct(snapshots[c].red_flags)
  /\ \A c \in DOMAIN sessions : Distinct(sessions[c].snapshot.red_flags)

\* The turn log of the call of SpecRequests.
LogOfCall == IF TheCall \in DOMAIN sessions THEN sessions[TheCall].turns ELSE << >>

\* The events of a step that carry a turn carry this one.
EventsOfTurn(events, turn) ==
  /\ HasEvent(events, IF turn.is_final THEN "final" ELSE "partial")
  /\ HasEvent(events, "transcript_received")
  /\ \A e \in 1..Len(events) :
        /\ events[e].call_id = turn.call_id
        /\ events[e].type \in {"final", "partial", "transcript_received"}
              => events[e].data.turn = turn

\* C32: a turn runs to completion.  With two requests for the same call in
\* flight, a request suspended at an await either has not touched the call
\* (its turn is not in the log) or is through with it (its turn is in the
\* log and its action is decided); and the turn log changes only in a step
\* that is the whole processing of one request's turn: the append, the
\* broadcasts of that turn, the screening and the decision of its action,
\* while the other request does not move.
C32_TurnRunsToCompletion ==
  /\ [](\A r \in RequestIds :
          /\ requests[r].pc \in {"idle", "json", "await"}
          /\ requests[r].pc = "json" => ~Includes(LogOfCall, requests[r].turn)
          /\ requests[r].pc = "await" => Includes(LogOfCall, requests[r].turn))
  /\ [][LogOfCall' # LogOfCall =>
          \E r \in RequestIds :
             /\ requests[r].pc = "json" /\ requests'[r].pc = "await"
             /\ \A q \in RequestIds \ {r} : requests'[q] = requests[q]
             /\ LogOfCall' = Append(LogOfCall, requests[r].turn)
             /\ EventsOfTurn(result'.events, requests[r].turn)
             /\ requests[r].turn.is_final
                   => /\ result'.ret.action \in {"request_handoff", "ask_question", "speak"}
                      /\ (result'.ret.action = "request_handoff")
                            <=> HasEvent(result'.events, "red_flag_detected")
             /\ ~requests[r].turn.is_final => result'.ret.action = "none"]_vars

\* Two requests were in flight together and the one that came second was
\* processed first, whole, while the first was still reading its body.
C32_Witness ==
  \E r, q \in RequestIds :
     /\ requests[r].pc = "await" /\ requests[q].pc = "json"
     /\ requests[q].turn.turn_id < requests[r].turn.turn_id
     /\ result.op = "POST /api/v1/transcript"
     /\ result.args.turn = requests[r].turn
     /\ result.ret.action = "request_handoff"
     /\ LogOfCall # << >>
     /\ LogOfCall[Len(LogOfCall)] = requests[r].turn

\* C33: a listener that is removed from inside a callback while an event is
\* delivered is the only one the removal stops: every other listener that
\* was registered for the event (under its call id or under '*') when the
\* delivery started is invoked for that same event.
C33_RemovalInsideCallbackStopsOnlyThatListener ==
  [][result'.events # << >> =>
       LET event == result'.events[1]
           recs == RecordsFor(result'.delivered, event.type)
       IN  \A k \in {event.call_id, WildcardId} :
              \A l \in UnsubListeners \ Unsubscribing :
                 Includes(Registered(eventListeners, k), l)
                    => \E i \in 1..Len(recs) : recs[i].key = k /\ recs[i].listener = l]_vars

\* The session the transcript route created for the call.
SeenByTranscriptRoute(c) == c \in DOMAIN routes["transcript"].sessions

\* C34: the routes act on one shared orchestrator state.  A call for which
\* POST /api/v1/transcript created a session is found by
\* GET /api/v1/request_handoff, which answers with the red flags of that
\* session, and by GET /api/v1/emit_snapshot, which answers with its
\* snapshot; and every event of a POST /api/v1/transcript is delivered to
\* every stream GET /api/v1/live opened for the call or for '*'.
C34_RoutesShareOneState ==
  /\ (result.op = "GET /api/v1/request_handoff" /\ SeenByTranscriptRoute(result.call_id))
        => /\ result.http = 200
           /\ result.ret.red_flags
                 = routes["transcript"].sessions[result.call_id].snapshot.red_flags
  /\ (result.op = "GET /api/v1/emit_snapshot" /\ SeenByTranscriptRoute(result.call_id))
        => /\ result.http = 200
           /\ result.ret.snapshot = routes["transcript"].sessions[result.call_id].snapshot
  /\ (result.op = "POST /api/v1/transcript" /\ result.http = 200)
        => \A s \in StreamIds :
              (streams[s].open /\ streams[s].call_id \in {result.call_id, WildcardId})
                 => \A e \in 1..Len(result.events) :
                       \E d \in 1..Len(result.delivered) :
                          /\ result.delivered[d].listener = s
                          /\ result.delivered[d].type = result.events[e].type

\* The stream was given the turn in its current_state message.
InDump(s, turn) ==
  \E m \in 1..Len(streams[s].messages) :
     /\ streams[s].messages[m].type = "current_state"
     /\ Includes(streams[s].messages[m].turns, turn)

\* The stream was given the turn as a final or partial event.
AsEvent(s, turn) ==
  \E m \in 1..Len(streams[s].messages) :
     /\ streams[s].messages[m].type \in {"final", "partial"}
     /\ streams[s].messages[m].data.turn = turn

\* C39: a dashboard subscribed to a specific call misses no turn and sees
\* none twice: every turn in the log of the call was either in the
\* current_state message of the stream or delivered to it as an event
\* afterwards, never both and never neither.
C39_NoTurnMissedOrDoubled ==
  \A s \in StreamIds :
     (streams[s].open /\ streams[s].call_id \in CallIds
        /\ SeenByTranscriptRoute(streams[s].call_id))
       => LET turns == routes["transcript"].sessions[streams[s].call_id].turns
          IN  \A i \in 1..Len(turns) : InDump(s, turns[i]) # AsEvent(s, turns[i])

\* C35: a chunk submission answered with 429 is retried and its promise
\* settles in the end: the caller of submitChunk gets a job.
C35_RateLimitedChunkResolves ==
  \A p \in 1..(MaxSubmits + 1) :
     (p \in DOMAIN twinmind.promises /\ twinmind.promises[p].limited)
        ~> (p \in DOMAIN twinmind.promises /\ twinmind.promises[p].state # "pending")

\* C36: reconnection is bounded and backs off exponentially: since a
\* connection last opened the adapter has made at most maxReconnectAttempts
\* reconnect attempts, and the delay of the k-th of them is
\* reconnectDelay * 2^(k-1).
C36_BoundedExponentialReconnect ==
  /\ asr.sinceOpen <= maxReconnectAttempts
  /\ asr.sinceOpen > 0 => asr.lastDelay = reconnectDelay * Pow2(asr.sinceOpen - 1)

\* C40: once close() was called the adapter opens no new connection and
\* isConnected stays false; the Close event that close() causes starts no
\* reconnect.
C40_NoReconnectAfterClose ==
  [][asr.closed =>
       /\ Len(asr'.conns) = Len(asr.conns)
       /\ asr'.timers <= asr.timers
       /\ ~asr'.isConnected]_vars

\* The entry of a map under a key, or nothing.
EntryOf(map, k) == IF k \in DOMAIN map THEN <<map[k]>> ELSE << >>

CallOperations ==
  {"processTranscript", "updateSlot", "emitSnapshot", "processFunctionCall", "endSession"}

\* C37: calls are isolated: an operation addressed to call A leaves the
\* session (turn log, snapshot), the stored snapshot and the subscriptions of
\* every other call B unchanged and invokes no listener registered for B.
C37_CallsIsolated ==
  [][result'.op \in CallOperations =>
       \A b \in CallIds \ {result'.call_id} :
          /\ EntryOf(sessions', b) = EntryOf(sessions, b)
          /\ EntryOf(snapshots', b) = EntryOf(snapshots, b)
          /\ EntryOf(eventListeners', b) = EntryOf(eventListeners, b)
          /\ \A i \in 1..Len(result'.delivered) : result'.delivered[i].key # b]_vars

\* C38: the snapshot stored for a call id, in the snapshot store and in the
\* session of that call, has that call id as its call_id.
C38_StoredSnapshotOwnCallId ==
  /\ \A c \in DOMAIN snapshots : snapshots[c].call_id = c
  /\ \A c \in DOMAIN sessions : sessions[c].snapshot.call_id = c

====
